---- MODULE Spec2Model ----
(***************************************************************************)
(* A model of pwnlib/tubes/ssh.py: the ssh_channel life cycle (open,       *)
(* poll / wait / recvall / close, the terminal-resize callback), the       *)
(* ssh.run_to_end helper, the ssh.process spawn handshake, the download    *)
(* cache, upload_data, upload_dir / download_dir, ssh_listener,            *)
(* interactive(), set_working_directory and the launcher's descriptors.    *)
(*                                                                         *)
(* Twelve specifications share the variables:                              *)
(*   Spec         one ssh_channel, its caller, the remote end of the       *)
(*                transport and the SIGWINCH handler of pwnlib.term;       *)
(*   SpecOpen     the construction of a channel over every form of         *)
(*                command, working directory and environment;              *)
(*   SpecProcess  ssh.process(): the launcher run on the remote host and   *)
(*                the handshake read back by process();                    *)
(*   SpecCache    download_data / download_file through the cache of       *)
(*                fingerprint-named files;                                 *)
(*   SpecUpload   upload_data under the session's working directories;     *)
(*   SpecDir      upload_dir followed by download_dir;                     *)
(*   SpecListen   an ssh_listener, its accepter thread and its callers;    *)
(*   SpecInteractive  interactive() on a shell channel: the reader thread  *)
(*                and the foreground loop;                                 *)
(*   SpecWd       set_working_directory and the channels opened after it;  *)
(*   SpecFd       the descriptor loop of the process() launcher;           *)
(*   SpecStamp    downloads of files that have no fingerprint;             *)
(*   SpecCat      downloads through cat, without the SFTP client.          *)
(*                                                                         *)
(* The transport (paramiko) is an external collaborator.  It is modelled   *)
(* at its interface: a channel handle that records the requests issued on  *)
(* it, a byte stream with an end-of-stream mark, and an exit status whose  *)
(* status_event is set once the remote process has exited.                 *)
(***************************************************************************)
EXTENDS Integers, Sequences, FiniteSets, TLC

\* Python's None and an optional value: None is <<>>, a value x is <<x>>.
None == <<>>
Some(x) == <<x>>

\* ------------------------------------------------------------------------
\* Bounds of the model
\* ------------------------------------------------------------------------
\* the remote command writes at most MaxOut bytes
MaxOut == 2
\* the count of exit-status fetches saturates here
FetchCap == 2

\* the i-th byte the remote command writes
OutByte(i) == IF i % 2 = 1 THEN "H" ELSE "i"
ExitCodes == {0, 17}

\* the id of the modelled channel's resize callback, and of a callback that
\* another tty channel registered before it
OwnCb == "resizer"
OtherCb == "other"

VARIABLES
    \* ---- ssh_channel object
    cstate,      \* "absent" | "open" (returned by system/run) | "rte" (local to
                 \* run_to_end) | "failed" (__init__ raised)
    sock,        \* self.sock: "unset" | "chan" | "None"
    tmp_sock,    \* recvall's local tmp_sock
    returncode,  \* self.returncode: None or Some(code)
    tty,         \* self.tty
    process,     \* self.process as given to __init__
    chanEnv,     \* self.env as given to __init__
    cmdline,     \* the command line handed to exec_command
    rbuffer,     \* the tube's receive buffer
    \* ---- pwnlib.term
    on_winch,    \* term.term.on_winch, the process-wide list of callbacks
    \* ---- transport, remote side
    requests,    \* requests issued on the channel: "exec" / "shell"
    chClosed,    \* the transport channel has been closed locally
    written,     \* every byte the remote command has written so far
    taken,       \* how many of them the tube has received
    eof,         \* the remote closed the stream
    exitCode,    \* None until the remote process exits, then Some(code)
    \* ---- the caller's thread
    pc,          \* the statements still to run, innermost call first
    ret,         \* the value the last poll() returned
    data,        \* the value the last recvall() returned
    rteRet,      \* run_to_end's local retcode
    rte,         \* run_to_end's result: None or Some([data, retcode])
    lastOp,      \* how the last call that opens a channel ended
    events,      \* what the current top-level call has done so far
    fetches,     \* recv_exit_status calls made on the channel
    \* ---- the SIGWINCH handler
    rpc,         \* "idle" | "called" | "checked"
    resizeErr,   \* the callback used a None handle (AttributeError)
    \* ---- ssh.process(): the remote host and the handshake
    pargs,       \* the arguments process() was called with
    argv,        \* process()'s argv once validated (line 616)
    executable,  \* process()'s executable once validated (line 622)
    host,        \* what process() meets on the remote host
    launched,    \* the lines the launcher command line produces
    stream,      \* the lines of the channel not received yet
    early,       \* how many of them arrive without a pause of a second
    consumed,    \* the lines process() has taken from the channel
    ppc,         \* where process() stands
    result,      \* process()'s local result
    error_message, \* process()'s local error_message
    pid,         \* python.pid
    failure,     \* h.failure(...) was called
    outcome      \* how process() ended

chanVars == <<cstate, sock, tmp_sock, returncode, tty, process, chanEnv, cmdline, rbuffer>>
netVars == <<requests, chClosed, written, taken, eof, exitCode>>
callVars == <<pc, ret, data, rteRet, rte, lastOp, events, fetches>>
winchVars == <<rpc, resizeErr>>
lifeVars == <<chanVars, on_winch, netVars, callVars, winchVars>>
procVars == <<pargs, argv, executable, host, launched, stream, early, consumed,
              ppc, result, error_message, pid, failure, outcome>>

VARIABLES
    \* ---- the session's download cache
    cache,       \* self.cache: downloads may be served from the cache
    sftp,        \* self.sftp is set: transfers go through the SFTP client
    rfile,       \* the bytes of the remote file
    cachedir,    \* the files of self._cachedir: records [name, content]
    dpc,         \* where the download stands: "idle" | "fetch" | "ret" | "done"
    dop,         \* the call in progress: "data" (download_data) | "file"
    fingerprint, \* _download_to_cache's local fingerprint
    dlocal,      \* _download_to_cache's local, the path it returns
    rawThis,     \* _download_raw was called in this download
    wroteThis,   \* what it wrote: None, or the bytes
    dlog,        \* what _download_to_cache did, in order
    dres,        \* how the download ended
    dest,        \* download_file's destination file: None or its bytes
    destBefore,  \* the destination file when the download started
    stable,      \* the remote file has not changed since the fingerprint
    prev         \* the download before, if it succeeded with caching enabled
                 \* and neither the remote file nor the cache changed since

cacheVars == <<cache, sftp, rfile, cachedir, dpc, dop, fingerprint, dlocal,
               rawThis, wroteThis, dlog, dres, dest, destBefore, stable, prev>>

VARIABLES
    \* ---- uploads
    sessionCwd,  \* the session's self.cwd, a path
    rfs,         \* the files of the remote host: records [path, content]
    upc,         \* where upload_data stands: "idle" | "done"
    uargs,       \* its arguments [data, remote], whether the host accepts the
                 \* write, and the exit status of cat, if cat was run
    ures,        \* how it ended: "none" | "ok" | "raised"
    ulog         \* what upload_data did with the session and the channel

upVars == <<sessionCwd, rfs, upc, uargs, ures, ulog>>

VARIABLES
    \* ---- directory transfers
    ltree,       \* the files of the local directory: records [path, content],
                 \* the path taken from the directory
    lout,        \* the files download_dir has extracted, the path taken from
                 \* its local directory
    dirpc,       \* "idle" | "uploaded" | "done"
    dargs,       \* [local, remote]: the arguments of upload_dir;
                 \* [back]: the remote argument of download_dir, or None
    dirres       \* how the last of the two calls ended: "none" | "ok" | "raised"

dirVars == <<ltree, lout, dirpc, dargs, dirres>>

VARIABLES
    \* ---- one ssh_listener, its accepter thread and the threads using it
    lpc,         \* the accepter: "none" | "failed" (no listener) | "accept" |
                 \* "cancel" | "record" | "raise" | "ended"
    lsock,       \* the listener's attribute sock: "unset" | "none" | "chan"
    forwarded,   \* the remote port forward is in place
    peer,        \* origin_addr of the accepted channel, or None
    rhost,       \* the listener's rhost and rport, or None while unset
    cpc,         \* per caller: "idle" | "joining" | "returned"
    cop,         \* per caller: "sock" (a stream operation) | "wait"
    seen         \* per caller: what the call found when it returned, or None

listenVars == <<lpc, lsock, forwarded, peer, rhost, cpc, cop, seen>>

VARIABLES
    \* ---- interactive() on a shell channel
    term_mode,   \* term.term_mode: keys are read raw
    event,       \* the threading.Event shared by the two loops is set
    rd,          \* recv_thread: "none" | "test" | "recv" | "ended"
    fpc,         \* the foreground: "idle" | "test" | "read" | "send" | "join" |
                 \* "returned" | "raised"
    fdata,       \* the local data: "unbound", "" or the bytes read
    pending,     \* the remote end has written bytes not yet received
    remoteEof,   \* the remote stream has reached its end
    lateSend,    \* a send was issued while the event was set
    endedBy      \* what ended the session first: "none" | "recv_eof" |
                 \* "send_eof" | "stdin_eof"

interVars == <<term_mode, event, rd, fpc, fdata, pending, remoteEof, lateSend,
               endedBy>>

\* the variables of the sections after the channel and process()
VARIABLES
    \* ---- set_working_directory and the channels opened after it
    swres,       \* how the last call ended: "none" | "ok" | "raised"
    swret,       \* the directory it returned, if it returned
    cwdBefore,   \* self.cwd when it was called, if it was
    lastChan     \* the channel opened last since: how, and the directory its
                 \* command runs in (none: the command never started)

wdVars == <<swres, swret, cwdBefore, lastChan>>

VARIABLES
    \* ---- the launcher script of process(), from its descriptor loop on
    fdplan,      \* what stdin, stdout, stderr were given: <<slot 0, 1, 2>>
    fdtab,       \* the launcher's descriptor table: the open file of each
                 \* descriptor, if it is open
    fdtab0,      \* the table the launcher was started with
    pthere,      \* the paths there are on the remote host
    lnpos,       \* "idle" | "loop" | "exec" (os.execve was called) | "crashed"
    lnslot       \* the slot the loop is at (0, 1, 2), 3 after the loop

fdVars == <<fdplan, fdtab, fdtab0, pthere, lnpos, lnslot>>

VARIABLES
    \* ---- downloads of files that have no fingerprint
    now,         \* the time of day, in seconds
    stamped,     \* the downloads made: the remote path, the local name,
                 \* what _download_to_cache did, whether it raised
    catres       \* the last download made without sftp, if any: what was
                 \* measured and received, and how it ended

stampVars == <<now, stamped, catres>>

VARIABLES
    \* ---- run_to_end's caller
    rteEnv       \* the env argument run_to_end was last called with

rteVars == <<rteEnv>>

restVars == <<listenVars, interVars, wdVars, fdVars, stampVars, rteVars>>
xferVars == <<cacheVars, upVars, dirVars, restVars>>

\* ------------------------------------------------------------------------
\* Command serialisation (ssh_channel.__init__, lines 83-101)
\* ------------------------------------------------------------------------
\* A command is None, a string, or a list of arguments; strings are
\* sequences of tokens, the empty string is <<>>.
NoProcess == [kind |-> "none", val |-> <<>>]
StrProcess(s) == [kind |-> "str", val |-> s]
ListProcess(l) == [kind |-> "list", val |-> l]

\* misc.sh_string: the argument, quoted for the shell
ShString(s) == <<"'", s, "'">>

RECURSIVE JoinArgs(_)
\* ' '.join(misc.sh_string(s) for s in process)
JoinArgs(l) ==
    IF l = <<>> THEN <<>>
    ELSE IF Len(l) = 1 THEN ShString(l[1])
    ELSE ShString(l[1]) \o <<" ">> \o JoinArgs(Tail(l))

\* the command as a string, or None
ProcessString(p) ==
    IF p.kind = "list" THEN Some(JoinArgs(p.val))
    ELSE IF p.kind = "str" THEN Some(p.val)
    ELSE None

\* Python truthiness of `process`: neither None nor the empty string
Truthy(ps) == ps # None /\ ps[1] # <<>>

\* re.match('^[a-zA-Z_][a-zA-Z0-9_]*$', name), names being sequences of
\* characters
NameStart == {"A", "b", "_"}
NameRest == NameStart \cup {"1", "9"}
ValidName(name) ==
    /\ name # <<>>
    /\ name[1] \in NameStart
    /\ \A i \in 2..Len(name) : name[i] \in NameRest

\* lines 91-92: the cd prefix
WithCd(ps, wd) ==
    IF Truthy(ps) /\ wd # None
    THEN Some(<<"cd ">> \o ShString(wd[1]) \o <<" >/dev/null 2>&1; ">> \o ps[1])
    ELSE ps

RECURSIVE WithEnv(_, _)
\* lines 94-98: each entry of env is put in front of what has been built
WithEnv(ps, env) ==
    IF ~Truthy(ps) \/ env = <<>> THEN ps
    ELSE WithEnv(Some(env[1].name \o <<"=">> \o ShString(env[1].value)
                      \o <<" ">> \o ps[1]),
                 Tail(env))

\* a construction that accepts every key of env
EnvRejectedNever(ps, env) == FALSE

\* line 96: some key of env fails the pattern; line 97 then raises (the
\* TypeError of its `'... $r' % name`, log.error is not reached)
EnvRejected(ps, env) ==
    Truthy(ps) /\ \E i \in 1..Len(env) : ~ValidName(env[i].name)

\* lines 100-101: the raw-mode prefix
WithStty(ps, t) ==
    IF Truthy(ps) /\ t
    THEN Some(<<"stty raw -ctlecho -echo; ">> \o ps[1])
    ELSE ps

\* lines 86-101
Serialize(p, t, wd, env) ==
    WithStty(WithEnv(WithCd(ProcessString(p), wd), env), t)

\* line 136 with the mutated test `if process is not None`
RequestForNotNone(ps) == IF ps # None THEN "exec" ELSE "shell"

\* lines 136-139: the one request issued for the serialised command
RequestFor(ps) == IF Truthy(ps) THEN "exec" ELSE "shell"


\* ------------------------------------------------------------------------
\* ssh_channel.__init__ (lines 69-141)
\* ------------------------------------------------------------------------
\* where __init__ can raise: a rejected env key (line 97), open_session
\* (line 112), get_pty (line 119), exec_command / invoke_shell (137 / 139)
FailPoints == {"none", "open_session", "get_pty", "request"}

\* self.resizer: the callback of a tty channel, None otherwise (125 / 128)
Resizer(t) == IF t THEN Some(OwnCb) ELSE None

\* __init__ run to its end or to the statement that raises.  `as` is the
\* state of a channel that was constructed: "open" or "rte".
Construct(p, t, wd, env, failAt, as) ==
    LET ps == Serialize(p, t, wd, env)
        rejected == EnvRejected(WithCd(ProcessString(p), wd), env)
        opened == ~rejected /\ failAt # "open_session"
        hasPty == opened /\ failAt # "get_pty"
        ok == hasPty /\ failAt # "request"
    IN  /\ failAt = "get_pty" => t
        /\ returncode' = None
        /\ tty' = t
        /\ process' = p
        /\ chanEnv' = env
        /\ cmdline' = ps
        /\ sock' = IF opened THEN "chan" ELSE "unset"
        /\ on_winch' = IF hasPty /\ t THEN Append(on_winch, OwnCb) ELSE on_winch
        /\ requests' = IF ok THEN <<RequestFor(ps)>> ELSE <<>>
        /\ cstate' = IF ok THEN as ELSE "failed"

\* ------------------------------------------------------------------------
\* ssh_channel.poll (lines 172-185)
\* ------------------------------------------------------------------------
\* sock.status_event.is_set() / sock.exit_status_ready()
StatusReady == exitCode # None

\* sock.recv_exit_status()
RecvExitStatus == exitCode[1]

Note(e) == events' = Append(events, e)

\* poll without `self.returncode is None` in its test
PollNoMemo(block) ==
    /\ (sock = "chan" /\ block) => StatusReady
    /\ IF sock = "chan" /\ (block \/ StatusReady)
       THEN /\ returncode' = Some(RecvExitStatus)
            /\ fetches' = IF fetches < FetchCap THEN fetches + 1 ELSE fetches
            /\ events' = events \o <<"poll", "fetch">>
       ELSE /\ UNCHANGED <<returncode, fetches>>
            /\ Note("poll")
    /\ ret' = returncode'

\* poll that answers None once the handle is gone
PollForgetful(block) ==
    /\ (returncode = None /\ sock = "chan" /\ block) => StatusReady
    /\ IF returncode = None /\ sock = "chan" /\ (block \/ StatusReady)
       THEN /\ returncode' = Some(RecvExitStatus)
            /\ fetches' = IF fetches < FetchCap THEN fetches + 1 ELSE fetches
            /\ events' = events \o <<"poll", "fetch">>
       ELSE /\ UNCHANGED <<returncode, fetches>>
            /\ Note("poll")
    /\ ret' = IF sock = "chan" THEN returncode' ELSE None

\* poll(block): the loop of lines 181-182 ends when status_event is set, so
\* a blocking poll that has to fetch is enabled only then
Poll(block) ==
    /\ (returncode = None /\ sock = "chan" /\ block) => StatusReady
    /\ IF returncode = None /\ sock = "chan" /\ (block \/ StatusReady)
       THEN /\ returncode' = Some(RecvExitStatus)
            /\ fetches' = IF fetches < FetchCap THEN fetches + 1 ELSE fetches
            /\ events' = events \o <<"poll", "fetch">>
       ELSE /\ UNCHANGED <<returncode, fetches>>
            /\ Note("poll")
    /\ ret' = returncode'

\* ------------------------------------------------------------------------
\* The statements of close, recvall and run_to_end, as the caller's pc
\* ------------------------------------------------------------------------
\* close (lines 270-273): poll(), the removal loop, super().close()
CloseBody == <<"poll_nb", "close_remove", "close_release">>

\* recvall (lines 155-167); tube.recvall (line 158) fills the buffer, calls
\* self.close() and returns the buffer
RecvallBody(timeout) ==
    <<"ra_save", IF timeout = "forever" THEN "ra_fill_forever" ELSE "ra_fill_timeout">>
    \o CloseBody \o <<"ra_get", "ra_restore", "poll_b", "ra_none">>

\* run_to_end asking recvall for a finite timeout
RunToEndTimeoutFinite == "finite"

\* run_to_end calls c.recvall() with the default timeout (line 798)
RunToEndTimeout == "forever"

\* run_to_end (lines 797-801) after the channel is open
RunToEndBody ==
    RecvallBody(RunToEndTimeout) \o <<"rte_wait">> \o CloseBody \o <<"rte_ret">>

AtLabel(l) == pc # <<>> /\ Head(pc) = l
Idle == pc = <<>>
Advance == pc' = Tail(pc)


\* ------------------------------------------------------------------------
\* Inputs of the channel specification
\* ------------------------------------------------------------------------
ProcessInputs ==
    { NoProcess, StrProcess(<<>>), StrProcess(<<"cmd">>),
      ListProcess(<<>>), ListProcess(<<"">>), ListProcess(<<"ls", "-l">>) }
WdInputs == {None, Some("/tmp")}
EnvInputs ==
    { <<>>,
      <<[name |-> <<"A", "1">>, value |-> "v"]>>,
      <<[name |-> <<"1", "A">>, value |-> "v"]>> }

\* the command the life-cycle specification runs
LifeInputs == { StrProcess(<<"cmd">>) }

\* the env run_to_end is given: none, or one variable
RteEnvs == { <<>>, <<[name |-> <<"A", "1">>, value |-> "v"]>> }

\* ssh.cwd after __init__ (line 421)
SessionCwd == Some(".")

\* ssh.system (lines 773-776): wd defaults to the session's cwd
System(p, t, wd, env, failAt, as) ==
    Construct(p, t, IF wd = None THEN SessionCwd ELSE wd, env, failAt, as)

\* ------------------------------------------------------------------------
\* The caller: top-level calls
\* ------------------------------------------------------------------------
\* c = s.system(process, tty, wd, env): the channel is handed to the caller
Open(p, t, wd, env, failAt) ==
    /\ cstate = "absent" /\ Idle
    /\ System(p, t, wd, env, failAt, "open")
    /\ lastOp' = IF cstate' = "open" THEN "system" ELSE "raised"
    /\ UNCHANGED <<tmp_sock, rbuffer, chClosed, written, taken, eof, exitCode,
                   pc, ret, data, rteRet, rte, events, fetches, winchVars, procVars, xferVars>>

\* s.run_to_end(process, tty, wd, env): line 797 opens the channel with
\* self.run(process, tty, wd=wd, timeout=Timeout.default), env is not
\* among the arguments; the rest follows
StartRunToEnd(p, t, wd, env, failAt) ==
    /\ cstate = "absent" /\ Idle
    /\ rteEnv' = env
    /\ System(p, t, wd, <<>>, failAt, "rte")
    /\ pc' = IF cstate' = "rte" THEN RunToEndBody ELSE <<>>
    /\ lastOp' = IF cstate' = "rte" THEN lastOp ELSE "raised"
    /\ events' = <<>>
    /\ UNCHANGED <<tmp_sock, rbuffer, chClosed, written, taken, eof, exitCode,
                   ret, data, rteRet, rte, fetches, winchVars, procVars,
                   cacheVars, upVars, dirVars, listenVars, interVars, wdVars,
                   fdVars, stampVars>>

Call(body) ==
    /\ cstate = "open" /\ Idle
    /\ pc' = body
    /\ events' = <<>>
    /\ UNCHANGED <<chanVars, on_winch, netVars, ret, data, rteRet, rte, lastOp,
                   fetches, winchVars, procVars, xferVars>>

CallPoll == Call(<<"poll_nb", "ret_poll">>)
\* wait (line 170) is poll(block=True)
CallWait == Call(<<"poll_b", "ret_wait">>)
CallRecvall(timeout) == Call(RecvallBody(timeout) \o <<"ret_recvall">>)
CallClose == Call(CloseBody \o <<"ret_close">>)

\* ------------------------------------------------------------------------
\* The caller: one step per statement
\* ------------------------------------------------------------------------
StepPollNb ==
    /\ AtLabel("poll_nb") /\ Advance
    /\ Poll(FALSE)
    /\ UNCHANGED <<cstate, sock, tmp_sock, tty, process, chanEnv, cmdline, rbuffer,
                   on_winch, netVars, data, rteRet, rte, lastOp, winchVars, procVars, xferVars>>

StepPollB ==
    /\ AtLabel("poll_b") /\ Advance
    /\ Poll(TRUE)
    /\ UNCHANGED <<cstate, sock, tmp_sock, tty, process, chanEnv, cmdline, rbuffer,
                   on_winch, netVars, data, rteRet, rte, lastOp, winchVars, procVars, xferVars>>

\* retcode = c.wait() (line 799)
StepRteWait ==
    /\ AtLabel("rte_wait") /\ Advance
    /\ Poll(TRUE)
    /\ rteRet' = ret'
    /\ UNCHANGED <<cstate, sock, tmp_sock, tty, process, chanEnv, cmdline, rbuffer,
                   on_winch, netVars, data, rte, lastOp, winchVars, procVars, xferVars>>

RECURSIVE Without(_, _)
Without(l, x) ==
    IF l = <<>> THEN <<>>
    ELSE IF Head(l) = x THEN Without(Tail(l), x)
    ELSE <<Head(l)>> \o Without(Tail(l), x)

\* a close that leaves the callback list alone
RemoveResizerNot(l, r) == l

\* lines 271-272: while self.resizer in on_winch: on_winch.remove(self.resizer)
RemoveResizer(l, r) == IF r = None THEN l ELSE Without(l, r[1])

StepCloseRemove ==
    /\ AtLabel("close_remove") /\ Advance
    /\ on_winch' = RemoveResizer(on_winch, Resizer(tty))
    /\ Note("remove")
    /\ UNCHANGED <<chanVars, netVars, ret, data, rteRet, rte, lastOp, fetches,
                   winchVars, procVars, xferVars>>

\* sock.close() of the base class (line 273): nothing without a handle, else
\* the transport channel is closed and self.sock becomes None
StepCloseRelease ==
    /\ AtLabel("close_release") /\ Advance
    /\ IF sock = "chan"
       THEN /\ chClosed' = TRUE
            /\ sock' = "None"
            /\ Note("release")
       ELSE UNCHANGED <<chClosed, sock, events>>
    /\ UNCHANGED <<cstate, tmp_sock, returncode, tty, process, chanEnv, cmdline, rbuffer,
                   on_winch, requests, written, taken, eof, exitCode,
                   ret, data, rteRet, rte, lastOp, fetches, winchVars, procVars, xferVars>>

\* tmp_sock = self.sock (line 155)
StepRaSave ==
    /\ AtLabel("ra_save") /\ Advance
    /\ tmp_sock' = sock
    /\ UNCHANGED <<cstate, sock, returncode, tty, process, chanEnv, cmdline, rbuffer,
                   on_winch, netVars, ret, data, rteRet, rte, lastOp, events,
                   fetches, winchVars, procVars, xferVars>>

\* tube.recvall's loop (line 158): it ends at end-of-stream, at once on a
\* tube already closed for receiving, or when a finite timeout expires; it
\* has buffered every byte that arrived until then
FillBuffer(finite) ==
    /\ sock # "chan" \/ eof \/ finite
    /\ IF sock = "chan"
       THEN /\ rbuffer' = rbuffer \o SubSeq(written, taken + 1, Len(written))
            /\ taken' = Len(written)
       ELSE UNCHANGED <<rbuffer, taken>>

StepRaFillForever ==
    /\ AtLabel("ra_fill_forever") /\ Advance
    /\ FillBuffer(FALSE)
    /\ UNCHANGED <<cstate, sock, tmp_sock, returncode, tty, process, chanEnv, cmdline,
                   on_winch, requests, chClosed, written, eof, exitCode,
                   ret, data, rteRet, rte, lastOp, events, fetches, winchVars, procVars, xferVars>>

StepRaFillTimeout ==
    /\ AtLabel("ra_fill_timeout") /\ Advance
    /\ FillBuffer(TRUE)
    /\ UNCHANGED <<cstate, sock, tmp_sock, returncode, tty, process, chanEnv, cmdline,
                   on_winch, requests, chClosed, written, eof, exitCode,
                   ret, data, rteRet, rte, lastOp, events, fetches, winchVars, procVars, xferVars>>

\* data = super().recvall(timeout): the buffer is handed over (line 158)
StepRaGet ==
    /\ AtLabel("ra_get") /\ Advance
    /\ data' = rbuffer
    /\ rbuffer' = <<>>
    /\ UNCHANGED <<cstate, sock, tmp_sock, returncode, tty, process, chanEnv, cmdline,
                   on_winch, netVars, ret, rteRet, rte, lastOp, events, fetches,
                   winchVars, procVars, xferVars>>

\* recvall that does not put the handle back
RestoreSockNot == sock

\* self.sock = tmp_sock (line 161)
RestoreSock == tmp_sock

StepRaRestore ==
    /\ AtLabel("ra_restore") /\ Advance
    /\ sock' = RestoreSock
    /\ Note("restore")
    /\ UNCHANGED <<cstate, tmp_sock, returncode, tty, process, chanEnv, cmdline, rbuffer,
                   on_winch, netVars, ret, data, rteRet, rte, lastOp, fetches,
                   winchVars, procVars, xferVars>>

\* self.sock = None (line 165)
StepRaNone ==
    /\ AtLabel("ra_none") /\ Advance
    /\ sock' = "None"
    /\ Note("discard")
    /\ UNCHANGED <<cstate, tmp_sock, returncode, tty, process, chanEnv, cmdline, rbuffer,
                   on_winch, netVars, ret, data, rteRet, rte, lastOp, fetches,
                   winchVars, procVars, xferVars>>

\* return data, retcode (line 801)
StepRteRet ==
    /\ AtLabel("rte_ret") /\ Advance
    /\ rte' = Some([data |-> data, retcode |-> rteRet])
    /\ lastOp' = "run_to_end"
    /\ ret' = None
    /\ data' = <<>>
    /\ rteRet' = None
    /\ tmp_sock' = "unset"
    /\ events' = <<>>
    /\ UNCHANGED <<cstate, sock, returncode, tty, process, chanEnv, cmdline, rbuffer,
                   on_winch, netVars, fetches, winchVars, procVars, xferVars>>

RetLabels == {"ret_poll", "ret_wait", "ret_recvall", "ret_close"}

\* the call returns to the caller, who drops the returned value; the
\* locals of the call are gone
Return ==
    /\ pc # <<>> /\ Head(pc) \in RetLabels /\ Advance
    /\ ret' = None
    /\ data' = <<>>
    /\ tmp_sock' = "unset"
    /\ events' = <<>>
    /\ UNCHANGED <<cstate, sock, returncode, tty, process, chanEnv, cmdline, rbuffer,
                   on_winch, netVars, rteRet, rte, lastOp, fetches, winchVars, procVars, xferVars>>

\* ------------------------------------------------------------------------
\* The remote end of the channel
\* ------------------------------------------------------------------------
Started == requests # <<>>

RemoteWrite ==
    /\ Started /\ ~eof /\ Len(written) < MaxOut
    /\ written' = Append(written, OutByte(Len(written) + 1))
    /\ UNCHANGED <<chanVars, on_winch, requests, chClosed, taken, eof, exitCode,
                   callVars, winchVars, procVars, xferVars>>

RemoteEof ==
    /\ Started /\ ~eof
    /\ eof' = TRUE
    /\ UNCHANGED <<chanVars, on_winch, requests, chClosed, written, taken,
                   exitCode, callVars, winchVars, procVars, xferVars>>

\* the remote process exits: the exit status arrives, status_event is set
ProcExit(c) ==
    /\ Started /\ exitCode = None
    /\ exitCode' = Some(c)
    /\ UNCHANGED <<chanVars, on_winch, requests, chClosed, written, taken, eof,
                   callVars, winchVars, procVars, xferVars>>

\* ------------------------------------------------------------------------
\* SIGWINCH: pwnlib.term calls every callback of on_winch; the channel's
\* callback is resizer (lines 121-123), which reads self.sock twice
\* ------------------------------------------------------------------------
InList(l, x) == \E i \in 1..Len(l) : l[i] = x

WinchFire ==
    /\ rpc = "idle" /\ InList(on_winch, OwnCb)
    /\ rpc' = "called"
    /\ UNCHANGED <<chanVars, on_winch, netVars, callVars, resizeErr, procVars, xferVars>>

\* if self.sock: (line 122)
ResizerCheck ==
    /\ rpc = "called"
    /\ rpc' = IF sock = "chan" THEN "checked" ELSE "idle"
    /\ UNCHANGED <<chanVars, on_winch, netVars, callVars, resizeErr, procVars, xferVars>>

\* self.sock.resize_pty(...) (line 123): self.sock is read again
ResizerCall ==
    /\ rpc = "checked"
    /\ rpc' = "idle"
    /\ resizeErr' = (resizeErr \/ sock # "chan")
    /\ UNCHANGED <<chanVars, on_winch, netVars, callVars, procVars, xferVars>>

\* ------------------------------------------------------------------------
\* ssh.process(): lines of text, safeeval.const and str
\* ------------------------------------------------------------------------
\* A line is a sequence of characters, its newline left out.
Digits == <<"0", "1", "2", "3", "4", "5", "6", "7", "8", "9">>
IsDigit(c) == \E i \in 1..Len(Digits) : Digits[i] = c
DigitVal(c) == (CHOOSE i \in 1..Len(Digits) : Digits[i] = c) - 1

RECURSIVE DecValue(_, _)
DecValue(line, acc) ==
    IF line = <<>> THEN acc
    ELSE DecValue(Tail(line), acc * 10 + DigitVal(Head(line)))

\* safeeval.const(line) for the lines of the model: the value of a decimal
\* integer literal (no leading zero but in "0"), None where it raises
SafeConst(line) ==
    IF /\ line # <<>>
       /\ \A i \in 1..Len(line) : IsDigit(line[i])
       /\ (Len(line) = 1 \/ line[1] # "0")
    THEN Some(DecValue(line, 0))
    ELSE None

RECURSIVE Str(_)
\* str(n) of a natural number
Str(n) == IF n < 10 THEN <<Digits[n + 1]>>
          ELSE Str(n \div 10) \o <<Digits[(n % 10) + 1]>>

\* the lines the launcher and the shell write
Line0 == <<"0">>
Line1 == <<"1">>
Line2 == <<"2">>
\* the message written after "0" (line 693)
NotExecutableMsg == <<"n", "o", "t">>
\* the first line of the traceback of an uncaught exception
TracebackLine == <<"T", "r">>

\* ------------------------------------------------------------------------
\* The launcher script (lines 666-713) and its command line (line 733)
\* ------------------------------------------------------------------------
\* The remote host: python2 is installed; os.chdir(cwd) succeeds; exe holds a
\* path separator; exe as given is an executable file; a directory of PATH
\* holds an executable named exe; the pid of the launcher; what the
\* executed program writes.
Hosts ==
    [python : BOOLEAN, cwdOk : BOOLEAN, sep : BOOLEAN, direct : BOOLEAN,
     inPath : BOOLEAN, pid : {7, 42},
     prog : {<<>>, << <<"5">> >>, << <<"o", "k">> >>}]

\* the resolution without the search of PATH
IsExeResolvedNoSearch(h) == h.direct

\* lines 679-691: is_exe(exe) after the search of PATH, made only for an exe
\* without a separator that is not executable as given
IsExeResolved(h) == h.direct \/ (~h.sep /\ h.inPath)

\* what the script writes to stdout and (merged into it) stderr
LauncherOutput(h) ==
    IF ~h.cwdOk THEN <<TracebackLine>>                      \* line 674 raises
    ELSE IF ~IsExeResolved(h) THEN <<Line0, NotExecutableMsg>>  \* 691-694
    ELSE <<Line1, Str(h.pid)>> \o h.prog                    \* 696-699, 712

\* test -x "$(which python2 2>&1)" && exec python2 -c <script> check; echo 2
WrapperOutput(h) ==
    IF h.python THEN LauncherOutput(h) ELSE <<Line2>>

\* what the remote shell may print before it runs the command line: nothing,
\* a line that is a constant other than 0, 1, 2, or a line that is none
Banners == {<<>>, << <<"7">> >>, << <<"h", "i">> >>}

\* ------------------------------------------------------------------------
\* ssh.process(): validation of the arguments (lines 597-653)
\* ------------------------------------------------------------------------
\* A Python value given where a string is expected: a string (a sequence of
\* characters, Nul being the null byte) or a value of another type.
Nul == "NUL"
StrVal(s) == [t |-> "str", s |-> s]
IntVal == [t |-> "int", s |-> <<>>]
IsString(v) == v.t = "str"

\* Python truthiness of an optional value: not None, not the empty string
ValTruthy(v) == v # None /\ (IsString(v[1]) => v[1].s # <<>>)

\* argv as given: None, a list, a tuple, a string, or a value of another
\* type (truthy as 5 is, or falsy as 0 is)
ArgvNone == [kind |-> "none", items |-> <<>>, truthy |-> FALSE]
ArgvList(l) == [kind |-> "list", items |-> l, truthy |-> l # <<>>]
ArgvTuple(l) == [kind |-> "tuple", items |-> l, truthy |-> l # <<>>]
ArgvStr(str) == [kind |-> "str", items |-> <<StrVal(str)>>, truthy |-> str # <<>>]
ArgvOther(b) == [kind |-> "other", items |-> <<>>, truthy |-> b]

\* env as given: None, a dict (its items in order), or a value of another type
EnvNone == [kind |-> "none", items |-> <<>>]
EnvDict(l) == [kind |-> "dict", items |-> l]
EnvOther == [kind |-> "other", items |-> <<>>]

\* a test for null bytes that finds none
EmbeddedNulNever(v) == FALSE

\* b'\x00' in arg[:-1] (lines 614, 648, 650)
EmbeddedNul(v) == \E i \in 1..(Len(v.s) - 1) : v.s[i] = Nul

RECURSIVE RStripNul(_)
\* arg.rstrip(b'\x00') (lines 616, 653)
RStripNul(str) ==
    IF str # <<>> /\ str[Len(str)] = Nul
    THEN RStripNul(SubSeq(str, 1, Len(str) - 1))
    ELSE str

RECURSIVE CheckArgv(_, _)
\* lines 609-616: the first element that raises decides; the assignment
\* argv[i] = ... of line 616 raises TypeError when argv is a tuple
CheckArgv(items, kind) ==
    IF items = <<>> THEN "none"
    ELSE IF ~IsString(Head(items)) THEN "invalid"
    ELSE IF EmbeddedNul(Head(items)) THEN "invalid"
    ELSE IF kind = "tuple" THEN "type"
    ELSE CheckArgv(Tail(items), kind)

RECURSIVE StripAll(_)
\* argv after the loop of lines 609-616
StripAll(items) ==
    IF items = <<>> THEN <<>>
    ELSE <<RStripNul(Head(items).s)>> \o StripAll(Tail(items))

\* lines 638-651, for one item of env
EnvEntryBad(e) ==
    \/ ~IsString(e.k)
    \/ ~IsString(e.v)
    \/ EmbeddedNul(e.k)
    \/ EmbeddedNul(e.v)

\* lines 631-653
CheckEnv(env) ==
    IF env.kind = "other" THEN "invalid"
    ELSE IF \E i \in 1..Len(env.items) : EnvEntryBad(env.items[i]) THEN "invalid"
    ELSE "none"

\* what validation hands on: err is "none", "invalid" (log.error raised) or
\* "type" (TypeError)
Rejected(e) == [err |-> e, argv |-> <<>>, executable |-> <<>>]

\* lines 597-653 in order
Validate(a) ==
    LET given == IF a.argv.truthy THEN a.argv ELSE ArgvList(<<>>)
        asList == IF given.kind = "str" THEN ArgvList(given.items) ELSE given
        argvErr == IF asList.kind \notin {"list", "tuple"} THEN "invalid"
                   ELSE CheckArgv(asList.items, asList.kind)
        newArgv == StripAll(asList.items)
        exe == IF ValTruthy(a.executable) THEN a.executable[1]
               ELSE StrVal(newArgv[1])
        cwd == IF ValTruthy(a.cwd) THEN a.cwd[1] ELSE StrVal(<<".">>)
    IN  IF ~a.argv.truthy /\ ~ValTruthy(a.executable) THEN Rejected("invalid")
        ELSE IF argvErr # "none" THEN Rejected(argvErr)
        ELSE IF ~IsString(exe) THEN Rejected("invalid")
        ELSE IF ~IsString(cwd) THEN Rejected("invalid")
        ELSE IF CheckEnv(a.env) # "none" THEN Rejected("invalid")
        ELSE [err |-> "none", argv |-> newArgv, executable |-> exe.s]

\* the arguments the model calls process() with
GoodArg == StrVal(<<"l", "s">>)
ArgvInputs ==
    { ArgvNone, ArgvList(<<>>), ArgvList(<<GoodArg>>),
      ArgvList(<<StrVal(<<"l", Nul>>)>>), ArgvList(<<StrVal(<<Nul, "s">>)>>),
      ArgvList(<<GoodArg, IntVal>>), ArgvList(<<StrVal(<<>>)>>),
      ArgvTuple(<<>>), ArgvTuple(<<GoodArg>>),
      ArgvStr(<<>>), ArgvStr(<<"l", "s">>), ArgvStr(<<Nul, "s">>),
      ArgvOther(TRUE), ArgvOther(FALSE) }
ExeInputs == { None, Some(StrVal(<<"c", "a", "t">>)), Some(StrVal(<<>>)), Some(IntVal) }
CwdInputs == { None, Some(StrVal(<<"/", "t">>)), Some(IntVal) }
ProcEnvInputs ==
    { EnvNone, EnvDict(<<>>), EnvOther,
      EnvDict(<<[k |-> StrVal(<<"P">>), v |-> StrVal(<<"x", Nul>>)]>>),
      EnvDict(<<[k |-> StrVal(<<Nul, "P">>), v |-> StrVal(<<"x">>)]>>),
      EnvDict(<<[k |-> StrVal(<<"P">>), v |-> StrVal(<<Nul, "x">>)]>>),
      EnvDict(<<[k |-> IntVal, v |-> StrVal(<<"x">>)]>>) }
ProcessArgs ==
    { [argv |-> a, executable |-> e, cwd |-> None, env |-> EnvNone] :
          a \in ArgvInputs, e \in ExeInputs }
    \cup
    { [argv |-> ArgvList(<<GoodArg>>), executable |-> None, cwd |-> c, env |-> v] :
          c \in CwdInputs, v \in ProcEnvInputs }

\* ------------------------------------------------------------------------
\* ssh.process(), the handshake (lines 730-752)
\* ------------------------------------------------------------------------
ProcInit ==
    /\ pargs = [argv |-> ArgvNone, executable |-> None, cwd |-> None, env |-> EnvNone]
    /\ argv = <<>>
    /\ executable = <<>>
    /\ host = [python |-> TRUE, cwdOk |-> TRUE, sep |-> TRUE, direct |-> TRUE,
               inPath |-> FALSE, pid |-> 7, prog |-> <<>>]
    /\ launched = <<>>
    /\ stream = <<>>
    /\ early = 0
    /\ consumed = <<>>
    /\ ppc = "init"
    /\ result = None
    /\ error_message = None
    /\ pid = None
    /\ failure = FALSE
    /\ outcome = "none"

Dec(n) == IF n > 0 THEN n - 1 ELSE 0

\* process(argv, executable, cwd=cwd, env=env): the validation; what raises
\* here ends the call
PValidate(a) ==
    /\ ppc = "init"
    /\ pargs' = a
    /\ LET v == Validate(a)
       IN  IF v.err = "none"
           THEN /\ argv' = v.argv
                /\ executable' = v.executable
                /\ ppc' = "run"
                /\ outcome' = outcome
           ELSE /\ UNCHANGED <<argv, executable>>
                /\ ppc' = "done"
                /\ outcome' = IF v.err = "type" THEN "raised_type"
                              ELSE "raised_invalid"
    /\ UNCHANGED <<host, launched, stream, early, consumed, result, error_message,
                   pid, failure, lifeVars, xferVars>>

\* python = self.run(<command line>) (line 733): the remote host starts to
\* write; the first n lines come without a pause
PRun(h, banner, n) ==
    /\ ppc = "run"
    /\ host' = h
    /\ launched' = WrapperOutput(h)
    /\ stream' = banner \o WrapperOutput(h)
    /\ early' = n
    /\ ppc' = "recvline1"
    /\ UNCHANGED <<pargs, argv, executable, consumed, result, error_message, pid,
                   failure, outcome, lifeVars, xferVars>>

\* result = safeeval.const(python.recvline()) (line 734); recvline raises
\* EOFError at the end of the stream, safeeval raises on what is no constant
PRecvline1 ==
    /\ ppc = "recvline1"
    /\ IF stream = <<>>
       THEN /\ outcome' = "raised_eof" /\ ppc' = "done"
            /\ UNCHANGED <<stream, early, consumed, result>>
       ELSE /\ stream' = Tail(stream)
            /\ early' = Dec(early)
            /\ consumed' = Append(consumed, Head(stream))
            /\ result' = SafeConst(Head(stream))
            /\ IF SafeConst(Head(stream)) = None
               THEN outcome' = "raised_const" /\ ppc' = "done"
               ELSE outcome' = outcome /\ ppc' = "drain"
    /\ UNCHANGED <<pargs, argv, executable, host, launched, error_message, pid,
                   failure, lifeVars, xferVars>>

\* lines 738-739: recvrepeat(timeout=1) takes what comes until a second
\* passes without data
PDrain ==
    /\ ppc = "drain"
    /\ IF result # Some(1)
       THEN /\ error_message' = Some(SubSeq(stream, 1, early))
            /\ consumed' = consumed \o SubSeq(stream, 1, early)
            /\ stream' = SubSeq(stream, early + 1, Len(stream))
            /\ early' = 0
       ELSE UNCHANGED <<error_message, consumed, stream, early>>
    /\ ppc' = "classify"
    /\ UNCHANGED <<pargs, argv, executable, host, launched, result, pid, failure,
                   outcome, lifeVars, xferVars>>

\* lines 741-746: log.error raises, h.failure marks the progress line as
\* failed and returns
Classify ==
    IF result = Some(0) THEN [outcome |-> "err_exe", failure |-> FALSE, ppc |-> "done"]
    ELSE IF result = Some(2) THEN [outcome |-> "err_host", failure |-> FALSE, ppc |-> "done"]
    ELSE IF result # Some(1) THEN [outcome |-> "none", failure |-> TRUE, ppc |-> "recvline2"]
    ELSE [outcome |-> "none", failure |-> FALSE, ppc |-> "recvline2"]

PClassify ==
    /\ ppc = "classify"
    /\ outcome' = Classify.outcome
    /\ failure' = Classify.failure
    /\ ppc' = Classify.ppc
    /\ UNCHANGED <<pargs, argv, executable, host, launched, stream, early,
                   consumed, result, error_message, pid, lifeVars, xferVars>>

\* python.pid = safeeval.const(python.recvline()) and return python (748-752)
PRecvline2 ==
    /\ ppc = "recvline2"
    /\ ppc' = "done"
    /\ IF stream = <<>>
       THEN /\ outcome' = "raised_eof"
            /\ UNCHANGED <<stream, early, consumed, pid>>
       ELSE /\ stream' = Tail(stream)
            /\ early' = Dec(early)
            /\ consumed' = Append(consumed, Head(stream))
            /\ pid' = SafeConst(Head(stream))
            /\ outcome' = IF SafeConst(Head(stream)) = None
                          THEN "raised_const" ELSE "channel"
    /\ UNCHANGED <<pargs, argv, executable, host, launched, result, error_message,
                   failure, lifeVars, xferVars>>

NextProcess ==
    \/ \E a \in ProcessArgs : PValidate(a)
    \/ \E h \in Hosts, banner \in Banners :
          \E n \in 0..Len(banner \o WrapperOutput(h)) : PRun(h, banner, n)
    \/ PRecvline1
    \/ PDrain
    \/ PClassify
    \/ PRecvline2

\* ------------------------------------------------------------------------
\* The download cache: fingerprints and the files of the cache directory
\* ------------------------------------------------------------------------
\* the length of a SHA-256 digest in hexadecimal (line 965)
FingerprintLen == 64

\* the bytes a remote file may hold, and those a local file may be given by
\* someone else
RemoteContents == {"A", "B"}
Tampered == "T"

\* A fingerprint is a string; the model keeps what line 964 asks of it: are
\* all its characters hexadecimal digits, how long is it, and of which
\* bytes it is the digest.
\* hashes.sha256filehex: the digest of a file's bytes
Digest(c) == [chars |-> "hex", len |-> FingerprintLen, of |-> c]

\* What (openssl sha256 || sha256 || sha256sum) leaves after lines 950-956:
\* the digest; None when the exit status is not 0; a string with other
\* characters when the tool labels its output in a way the two replace()
\* calls do not strip ("SHA2-256(stdin)= ...")
Tools == {"digest", "fails", "labelled"}
GetFingerprint(tool, c) ==
    IF tool = "fails" THEN None
    ELSE IF tool = "digest" THEN Some(Digest(c))
    ELSE Some([chars |-> "other", len |-> FingerprintLen + 7, of |-> ""])

\* a verification that accepts every string as a fingerprint
ValidPrintAny(fp) == TRUE

\* lines 964-965: only hexadecimal digits, and 64 of them
ValidPrint(fp) == fp.chars = "hex" /\ fp.len = FingerprintLen

\* names in the cache directory: the fingerprint (line 960), or the base
\* name of the remote file followed by the time (lines 1022-1025).  TsName
\* is that name where there is one remote file and no clock; StampName
\* below is the name in full
FpName(fp) == [fp |-> Some(fp), ts |-> FALSE]
TsName == [fp |-> None, ts |-> TRUE]

HasFile(dir, n) == \E f \in dir : f.name = n
FileAt(dir, n) ==
    IF HasFile(dir, n) THEN Some((CHOOSE f \in dir : f.name = n).content)
    ELSE None
Unlink(dir, n) == {f \in dir : f.name # n}
WriteFile(dir, n, c) == Unlink(dir, n) \cup {[name |-> n, content |-> c]}

\* a verification that trusts whatever file is in the cache
VerifyTrusting(fp, dir) ==
    IF ~ValidPrint(fp)
    THEN [res |-> "raise", dir |-> dir, log |-> <<"invalid">>]
    ELSE IF ~HasFile(dir, FpName(fp))
    THEN [res |-> "false", dir |-> dir, log |-> <<"verify">>]
    ELSE [res |-> "true", dir |-> dir, log |-> <<"verify">>]

\* _verify_local_fingerprint (lines 962-977): log.error raises on a string
\* that is no fingerprint; a file whose digest differs is unlinked
Verify(fp, dir) ==
    IF ~ValidPrint(fp)
    THEN [res |-> "raise", dir |-> dir, log |-> <<"invalid">>]
    ELSE IF ~HasFile(dir, FpName(fp))
    THEN [res |-> "false", dir |-> dir, log |-> <<"verify">>]
    ELSE IF Digest(FileAt(dir, FpName(fp))[1]) = fp
    THEN [res |-> "true", dir |-> dir, log |-> <<"verify">>]
    ELSE [res |-> "false", dir |-> Unlink(dir, FpName(fp)),
          log |-> <<"verify", "unlink">>]

\* _download_raw (lines 979-1012).  ok: the bytes of the remote file are
\* written to local.  Not ok: sftp.get raises (line 984); without sftp
\* h.failure is called and the function returns with nothing written
\* (lines 989-991, 1007-1009)
DownloadRaw(dir, n, ok, viaSftp, c) ==
    IF ok
    THEN [raised |-> FALSE, dir |-> WriteFile(dir, n, c), wrote |-> Some(c)]
    ELSE [raised |-> viaSftp, dir |-> dir, wrote |-> None]

\* a _download_to_cache that looks into the cache whatever self.cache says
ToCacheIgnoringSwitch(fp, stamp, dir, cacheOn, ok, viaSftp, c) ==
    IF fp = None
    THEN LET raw == DownloadRaw(dir, stamp, ok, viaSftp, c)
         IN  [raised |-> raw.raised, dir |-> raw.dir, local |-> stamp,
              raw |-> TRUE, wrote |-> raw.wrote, log |-> <<"raw">>]
    ELSE LET local == FpName(fp[1])
             v1 == Verify(fp[1], dir)
             raw == DownloadRaw(v1.dir, local, ok, viaSftp, c)
             v2 == Verify(fp[1], raw.dir)
         IN  IF v1.res = "raise"
             THEN [raised |-> TRUE, dir |-> v1.dir, local |-> local,
                   raw |-> FALSE, wrote |-> None, log |-> v1.log]
             ELSE IF v1.res = "true"
             THEN [raised |-> FALSE, dir |-> v1.dir, local |-> local,
                   raw |-> FALSE, wrote |-> None, log |-> v1.log \o <<"found">>]
             ELSE [raised |-> raw.raised \/ v2.res = "raise", dir |-> v2.dir,
                   local |-> local, raw |-> TRUE, wrote |-> raw.wrote,
                   log |-> v1.log \o <<"raw">> \o v2.log]

\* _download_to_cache (lines 1020-1040) once the fingerprint is known: what
\* becomes of the cache directory, the path it returns unless it raised,
\* whether _download_raw was called and what it wrote.  stamp is the name
\* lines 1022-1024 make for a file without a fingerprint
ToCache(fp, stamp, dir, cacheOn, ok, viaSftp, c) ==
    IF fp = None
    THEN LET raw == DownloadRaw(dir, stamp, ok, viaSftp, c)          \* 1022-1028
         IN  [raised |-> raw.raised, dir |-> raw.dir, local |-> stamp,
              raw |-> TRUE, wrote |-> raw.wrote, log |-> <<"raw">>]
    ELSE LET local == FpName(fp[1])                                  \* 1030
             v1 == IF cacheOn THEN Verify(fp[1], dir)                \* 1032
                   ELSE [res |-> "skipped", dir |-> dir, log |-> <<>>]
             raw == DownloadRaw(v1.dir, local, ok, viaSftp, c)       \* 1035
             v2 == Verify(fp[1], raw.dir)                            \* 1037
         IN  IF v1.res = "raise"
             THEN [raised |-> TRUE, dir |-> v1.dir, local |-> local,
                   raw |-> FALSE, wrote |-> None, log |-> v1.log]
             ELSE IF v1.res = "true"
             THEN [raised |-> FALSE, dir |-> v1.dir, local |-> local,
                   raw |-> FALSE, wrote |-> None, log |-> v1.log \o <<"found">>]
             ELSE IF raw.raised
             THEN [raised |-> TRUE, dir |-> raw.dir, local |-> local,
                   raw |-> TRUE, wrote |-> raw.wrote, log |-> v1.log \o <<"raw">>]
             ELSE [raised |-> v2.res = "raise", dir |-> v2.dir, local |-> local,
                   raw |-> TRUE, wrote |-> raw.wrote,
                   log |-> v1.log \o <<"raw">> \o v2.log
                           \o (IF v2.res = "false" THEN <<"failure">> ELSE <<>>)]

notCache == <<lifeVars, procVars, upVars, dirVars, restVars>>

NoResult == [kind |-> "none", data |-> None]
Raised == [kind |-> "raised", data |-> None]

CacheInit ==
    /\ cache = TRUE
    /\ sftp = TRUE
    /\ rfile = "A"
    /\ cachedir = {}
    /\ dpc = "idle"
    /\ dop = "data"
    /\ fingerprint = None
    /\ dlocal = None
    /\ rawThis = FALSE
    /\ wroteThis = None
    /\ dlog = <<>>
    /\ dres = NoResult
    /\ dest = None
    /\ destBefore = None
    /\ stable = TRUE
    /\ prev = None

\* download_data(remote) or download_file(remote, local) is called:
\* _download_to_cache resolves the path and asks the remote host for the
\* fingerprint (lines 1018-1020)
DStart(op, tool) ==
    /\ dpc = "idle"
    /\ dop' = op
    /\ fingerprint' = GetFingerprint(tool, rfile)
    /\ dpc' = "fetch"
    /\ destBefore' = dest
    /\ UNCHANGED <<cache, sftp, rfile, cachedir, dlocal, rawThis, wroteThis, dlog,
                   dres, dest, stable, prev, notCache>>

\* lines 1021-1040
DFetch(ok) ==
    /\ dpc = "fetch"
    /\ LET r == ToCache(fingerprint, TsName, cachedir, cache, ok, sftp, rfile)
       IN  /\ cachedir' = r.dir
           /\ rawThis' = r.raw
           /\ wroteThis' = r.wrote
           /\ dlog' = r.log
           /\ IF r.raised
              THEN /\ dlocal' = None
                   /\ dres' = Raised
                   /\ dpc' = "done"
              ELSE /\ dlocal' = Some(r.local)
                   /\ dres' = dres
                   /\ dpc' = "ret"
    /\ UNCHANGED <<cache, sftp, rfile, dop, fingerprint, dest, destBefore, stable,
                   prev, notCache>>

\* the caller of _download_to_cache: download_data opens the path and reads
\* it (lines 1064-1065), download_file copies it to the destination (lines
\* 1088-1090); both raise when there is no file at the path
DReturn ==
    /\ dpc = "ret"
    /\ dpc' = "done"
    /\ LET f == FileAt(cachedir, dlocal[1])
       IN  IF f = None
           THEN /\ dres' = Raised
                /\ dest' = dest
           ELSE /\ dres' = [kind |-> IF dop = "data" THEN "data" ELSE "copied",
                            data |-> f]
                /\ dest' = IF dop = "file" THEN f ELSE dest
    /\ UNCHANGED <<cache, sftp, rfile, cachedir, dop, fingerprint, dlocal, rawThis,
                   wroteThis, dlog, destBefore, stable, prev, notCache>>

\* the call is over and its locals are gone
DForget ==
    /\ dpc = "done"
    /\ dpc' = "idle"
    /\ prev' = IF dres.kind # "raised" /\ cache /\ stable
               THEN Some([raw |-> rawThis, fp |-> fingerprint # None])
               ELSE None
    /\ dop' = "data"
    /\ fingerprint' = None
    /\ dlocal' = None
    /\ rawThis' = FALSE
    /\ wroteThis' = None
    /\ dlog' = <<>>
    /\ dres' = NoResult
    /\ destBefore' = None
    /\ stable' = TRUE
    /\ UNCHANGED <<cache, sftp, rfile, cachedir, dest, notCache>>

\* the remote file is given other bytes, between two downloads or between
\* the fingerprint and the transfer of one
RemoteModify(c) ==
    /\ dpc \in {"idle", "fetch"}
    /\ c # rfile
    /\ rfile' = c
    /\ stable' = (dpc = "idle")
    /\ prev' = None
    /\ UNCHANGED <<cache, sftp, cachedir, dpc, dop, fingerprint, dlocal, rawThis,
                   wroteThis, dlog, dres, dest, destBefore, notCache>>

\* between two downloads someone else overwrites an entry of the cache
Tamper(n) ==
    /\ dpc = "idle"
    /\ n.fp # None /\ ValidPrint(n.fp[1])
    /\ HasFile(cachedir, n) /\ FileAt(cachedir, n) # Some(Tampered)
    /\ cachedir' = WriteFile(cachedir, n, Tampered)
    /\ prev' = None
    /\ UNCHANGED <<cache, sftp, rfile, dpc, dop, fingerprint, dlocal, rawThis,
                   wroteThis, dlog, dres, dest, destBefore, stable, notCache>>

\* s.cache = b, s.sftp = b between two downloads
SetCache(b) ==
    /\ dpc = "idle" /\ b # cache
    /\ cache' = b
    /\ prev' = None
    /\ UNCHANGED <<sftp, rfile, cachedir, dpc, dop, fingerprint, dlocal, rawThis,
                   wroteThis, dlog, dres, dest, destBefore, stable, notCache>>

SetSftp(b) ==
    /\ dpc = "idle" /\ b # sftp
    /\ sftp' = b
    /\ UNCHANGED <<cache, rfile, cachedir, dpc, dop, fingerprint, dlocal, rawThis,
                   wroteThis, dlog, dres, dest, destBefore, stable, prev, notCache>>

NextCache ==
    \/ \E op \in {"data", "file"}, tool \in Tools : DStart(op, tool)
    \/ \E ok \in BOOLEAN : DFetch(ok)
    \/ DReturn
    \/ DForget
    \/ \E c \in RemoteContents : RemoteModify(c)
    \/ \E n \in {f.name : f \in cachedir} : Tamper(n)
    \/ \E b \in BOOLEAN : SetCache(b)
    \/ \E b \in BOOLEAN : SetSftp(b)

\* ------------------------------------------------------------------------
\* Paths.  A path is a record [abs, parts]: whether it starts with a slash,
\* and what stands between its slashes ("proj/" has the parts "proj", "").
\* ------------------------------------------------------------------------
Rel(parts) == [abs |-> FALSE, parts |-> parts]
Abs(parts) == [abs |-> TRUE, parts |-> parts]

\* os.path.basename: what follows the last slash
Basename(p) == IF p.parts = <<>> THEN "" ELSE p.parts[Len(p.parts)]

\* os.path.normpath, for paths without "..": empty parts and "." go
RECURSIVE NormParts(_)
NormParts(parts) ==
    IF parts = <<>> THEN <<>>
    ELSE IF Head(parts) \in {"", "."} THEN NormParts(Tail(parts))
    ELSE <<Head(parts)>> \o NormParts(Tail(parts))

\* os.path.normpath(p) == os.path.basename(p), as strings: normpath gives
\* "." when nothing is left of a relative path
BareName(p) ==
    /\ ~p.abs
    /\ IF NormParts(p.parts) = <<>> THEN Basename(p) = "."
       ELSE NormParts(p.parts) = <<Basename(p)>>

\* os.path.join(a, b)
Join(a, b) == IF b.abs THEN b ELSE [abs |-> a.abs, parts |-> a.parts \o b.parts]

\* What the remote host makes of path p in a process whose working
\* directory is dir: the parts of an absolute, normal path
Resolve(dir, p) ==
    IF p.abs THEN NormParts(p.parts) ELSE dir \o NormParts(p.parts)

\* the directory a file is in
Parent(parts) == SubSeq(parts, 1, Len(parts) - 1)

\* ------------------------------------------------------------------------
\* upload_data (lines 1125-1165)
\* ------------------------------------------------------------------------
\* The remote host: the login directory, where the SFTP server and every
\* command start, and the directories there are
Home == <<"home">>
\* the directory mktemp -d makes (line 1322); no path names it before
TempDir == <<"tmp", "t">>

RemoteDirs ==
    { <<>>, Home, <<"w">>, Home \o <<"w">>,
      Home \o <<"d">>, <<"w", "d">>, Home \o <<"w", "d">>, TempDir }

\* the bytes uploaded
UploadBytes == {"x", "y"}

\* values of self.cwd: "." after __init__ (line 421), then whatever
\* set_working_directory was given
WorkDirs == { Rel(<<".">>), Abs(<<"w">>), Rel(<<"w">>) }

\* the remote paths given to upload_data
RemoteInputs ==
    { Rel(<<"f">>), Rel(<<".", "f">>), Rel(<<"d", "f">>), Abs(<<"w", "f">>) }

RemoteFileAt(fs, path) ==
    IF \E f \in fs : f.path = path
    THEN Some((CHOOSE f \in fs : f.path = path).content)
    ELSE None
RemoteStore(fs, path, c) ==
    {f \in fs : f.path # path} \cup {[path |-> path, content |-> c]}

\* lines 1147-1159: the file upload_data writes.  The cwd is put before a
\* bare file name only (line 1147); sftp.put resolves the path against the
\* login directory (line 1155), the command of line 1159 runs after
\* "cd <self.cwd>" (lines 773-774 and 91-92)
UploadTarget(cwd, viaSftp, remote) ==
    LET given == IF BareName(remote) THEN Join(cwd, remote) ELSE remote
    IN  IF viaSftp THEN Resolve(Home, given)
        ELSE Resolve(Resolve(Home, cwd), given)

UpInit ==
    /\ sessionCwd = Rel(<<".">>)
    /\ rfs = {}
    /\ upc = "idle"
    /\ uargs = [data |-> "x", remote |-> Rel(<<"f">>), writable |-> TRUE,
                 status |-> None]
    /\ ures = "none"
    /\ ulog = <<>>

notUp == <<lifeVars, procVars, dirVars, restVars>>

\* the exit status of sh -c "cat>file": 0 when the file was stored
CatStatus(stored) == IF stored THEN 0 ELSE 1

\* an upload_data that takes every exit status for a success
UploadFailedNever(status) == FALSE

\* line 1164: result != 0
UploadFailed(status) == status # 0

\* lines 1159-1165: what upload_data does on the channel of the fallback
FallbackSteps(status) ==
    <<"run", "send", "shutdown", "recvall", "wait">>
        \o (IF UploadFailed(status) THEN <<"error">> ELSE <<>>)

\* s.upload_data(data, remote).  The remote write fails when the directory
\* is not there, or when the host refuses it (writable is false); nothing
\* is stored then.  sftp.put raises on a failed write (line 1155); the
\* fallback learns of it by the exit status of cat (lines 1163-1165)
UploadData(bytes, remote, writable) ==
    /\ upc = "idle"
    /\ upc' = "done"
    /\ LET target == UploadTarget(sessionCwd, sftp, remote)
           stored == writable /\ Parent(target) \in RemoteDirs
           status == CatStatus(stored)
       IN  /\ rfs' = IF stored THEN RemoteStore(rfs, target, bytes) ELSE rfs
           /\ IF sftp
              THEN /\ uargs' = [data |-> bytes, remote |-> remote,
                                writable |-> writable, status |-> None]
                   /\ ulog' = <<"put">>
                   /\ ures' = IF stored THEN "ok" ELSE "raised"
              ELSE /\ uargs' = [data |-> bytes, remote |-> remote,
                                writable |-> writable, status |-> Some(status)]
                   /\ ulog' = FallbackSteps(status)
                   /\ ures' = IF UploadFailed(status) THEN "raised" ELSE "ok"
    /\ UNCHANGED <<sessionCwd, cacheVars, notUp>>

\* the call is over
UploadForget ==
    /\ upc = "done"
    /\ upc' = "idle"
    /\ uargs' = [data |-> "x", remote |-> Rel(<<"f">>), writable |-> TRUE,
                 status |-> None]
    /\ ures' = "none"
    /\ ulog' = <<>>
    /\ UNCHANGED <<sessionCwd, rfs, cacheVars, notUp>>

\* the exit status of the command set_working_directory runs with wd='.',
\* that is in the login directory: mktemp -d && cd && chmod && echo $PWD
\* when no directory is given (lines 1321-1323), ls wd otherwise (line 1329)
WdStatus(wd, made) ==
    IF wd = None THEN (IF made THEN 0 ELSE 1)
    ELSE IF Resolve(Home, wd[1]) \in RemoteDirs THEN 0 ELSE 2

\* the directory meant: what echo $PWD printed, or the one given
WdMeant(wd) == IF wd = None THEN Abs(TempDir) ELSE wd[1]

\* log.error raises when the status is not zero (lines 1325-1326, 1331-1332)
WdRejected(status) == status # 0

\* s.set_working_directory(wd) (lines 1293-1336): a nonzero status raises
\* before self.cwd is assigned (line 1335); otherwise self.cwd is the
\* directory, which is returned (line 1336)
SetWorkingDirectory(wd, made) ==
    /\ upc = "idle"
    /\ cwdBefore' = Some(sessionCwd)
    /\ lastChan' = None
    /\ IF WdRejected(WdStatus(wd, made))
       THEN /\ swres' = "raised"
            /\ swret' = None
            /\ UNCHANGED sessionCwd
       ELSE /\ sessionCwd' = WdMeant(wd)
            /\ swres' = "ok"
            /\ swret' = Some(WdMeant(wd))
    /\ UNCHANGED <<rfs, upc, uargs, ures, ulog, cacheVars, lifeVars, procVars,
                   dirVars, listenVars, interVars, fdVars, stampVars, rteVars>>

NextUpload ==
    \/ \E d \in UploadBytes, r \in RemoteInputs, w \in BOOLEAN : UploadData(d, r, w)
    \/ UploadForget
    \/ \E wd \in WorkDirs : SetWorkingDirectory(Some(wd), TRUE)
    \/ \E b \in BOOLEAN : upc = "idle" /\ SetSftp(b)

\* ------------------------------------------------------------------------
\* upload_dir (lines 1188-1221) and download_dir (lines 1092-1123)
\* ------------------------------------------------------------------------
\* the local directory is proj; its files, and what they may hold
LocalDir == "proj"
TreePaths == { <<"a">>, <<"s", "b">> }
TreeBytes == {"x", "y"}

\* how the caller may spell the directory, and the remote directory given
\* to upload_dir
LocalSpellings == { Rel(<<LocalDir>>), Rel(<<LocalDir, "">>) }
DirRemotes == { None, Some(Abs(<<"w">>)) }

\* the remote argument of download_dir
BackInputs == { Rel(<<LocalDir>>), Abs(<<"w", LocalDir>>) }

IsPrefix(a, b) == Len(a) <= Len(b) /\ SubSeq(b, 1, Len(a)) = a

\* tarfile's add(local, arcname): every file of the directory becomes a
\* member named arcname/<path>; with an empty arcname, <path>
Tar(tree, arcname) ==
    { [name |-> NormParts(<<arcname>>) \o f.path, content |-> f.content] :
          f \in tree }

\* tar -xzf in directory dir of the remote host
Untar(fs, dir, archive) ==
    { f \in fs : \A m \in archive : dir \o m.name # f.path }
        \cup { [path |-> dir \o m.name, content |-> m.content] : m \in archive }

\* tar -C dirname -czf ... basename on the remote host, for the absolute
\* path full = dirname/basename: the members are named basename/<path>
RemoteTar(fs, full) ==
    { [name |-> SubSeq(f.path, Len(full), Len(f.path)), content |-> f.content] :
          f \in { g \in fs : IsPrefix(full, g.path) /\ Len(full) >= 1 } }

\* line 1198: basename = os.path.basename(local)
ArcName(local) == Basename(local)

DirInit ==
    /\ ltree = {}
    /\ lout = {}
    /\ dirpc = "idle"
    /\ dargs = [local |-> Rel(<<LocalDir>>), remote |-> None, back |-> None]
    /\ dirres = "none"

notDir == <<lifeVars, procVars, cacheVars, restVars>>

\* a file of the local directory is written before the upload
LocalWrite(path, c) ==
    /\ dirpc = "idle"
    /\ ltree' = {f \in ltree : f.path # path} \cup {[path |-> path, content |-> c]}
    /\ UNCHANGED <<lout, dirpc, dargs, dirres, upVars, notDir>>

\* s.upload_dir(local, remote), for a directory that holds a file (the
\* model keeps files, not directories), onto a remote host that holds no
\* file of the model yet.  The archive goes to the absolute path mktemp gave
\* (lines 1211-1212); the command of line 1214 runs through self.run, that
\* is after "cd <self.cwd>", and fails when cd <remote> does (line 1218)
UploadDir(local, remote) ==
    /\ dirpc = "idle" /\ rfs = {} /\ ltree # {}
    /\ dargs' = [local |-> local, remote |-> remote, back |-> None]
    /\ dirpc' = "uploaded"
    /\ LET rem == IF remote # None THEN remote[1] ELSE sessionCwd   \* line 1195
           archive == Tar(ltree, ArcName(local))                    \* 1198, 1208
           dir == Resolve(Resolve(Home, sessionCwd), rem)           \* line 1214
       IN  IF dir \in RemoteDirs
           THEN /\ rfs' = Untar(rfs, dir, archive)
                /\ dirres' = "ok"
           ELSE /\ rfs' = rfs
                /\ dirres' = "raised"
    /\ UNCHANGED <<ltree, lout, sessionCwd, upc, uargs, ures, ulog, notDir>>

\* s.download_dir(remote, local) after it: readlink -f runs after
\* "cd <self.cwd>" (line 1103); tar fails when there is nothing at the
\* path (lines 1117-1118); the members are extracted under local
DownloadDir(remote) ==
    /\ dirpc = "uploaded"
    /\ dargs' = [dargs EXCEPT !.back = Some(remote)]
    /\ dirpc' = "done"
    /\ LET full == Resolve(Resolve(Home, sessionCwd), remote)       \* line 1103
           archive == RemoteTar(rfs, full)                          \* line 1115
       IN  IF archive = {} /\ full \notin RemoteDirs
           THEN /\ lout' = lout
                /\ dirres' = "raised"
           ELSE /\ lout' = { [path |-> m.name, content |-> m.content] :
                                m \in archive }
                /\ dirres' = "ok"
    /\ UNCHANGED <<ltree, upVars, notDir>>

NextDir ==
    \/ \E path \in TreePaths, c \in TreeBytes : LocalWrite(path, c)
    \/ \E local \in LocalSpellings, remote \in DirRemotes : UploadDir(local, remote)
    \/ \E remote \in BackInputs : DownloadDir(remote)
    \/ \E wd \in WorkDirs : dirpc = "idle" /\ SetWorkingDirectory(Some(wd), TRUE)

\* ------------------------------------------------------------------------
\* ssh_listener (lines 315-366)
\* ------------------------------------------------------------------------
\* the threads that use the listener, and the peers that may connect
Callers == {"c1", "c2"}
Peers == {"p1", "p2"}

ListenInit ==
    /\ lpc = "none"
    /\ lsock = "unset"
    /\ forwarded = FALSE
    /\ peer = None
    /\ rhost = None
    /\ cpc = [c \in Callers |-> "idle"]
    /\ cop = [c \in Callers |-> "sock"]
    /\ seen = [c \in Callers |-> None]

notListen == <<lifeVars, procVars, cacheVars, upVars, dirVars, interVars, wdVars,
               fdVars, stampVars, rteVars>>

\* ssh_listener(parent, bind_address, port) (lines 314-346): the port
\* forward is requested, and the accepter thread started, unless the
\* request fails (line 326 raises)
Listen(ok) ==
    /\ lpc = "none"
    /\ IF ok
       THEN forwarded' = TRUE /\ lpc' = "accept"
       ELSE forwarded' = FALSE /\ lpc' = "failed"
    /\ UNCHANGED <<lsock, peer, rhost, cpc, cop, seen, notListen>>

\* accepter, line 335: transport.accept() returns a channel, which is
\* stored in self.sock
AccAccept(p) ==
    /\ lpc = "accept"
    /\ lsock' = "chan"
    /\ peer' = Some(p)
    /\ lpc' = "cancel"
    /\ UNCHANGED <<forwarded, rhost, cpc, cop, seen, notListen>>

\* accepter, lines 335 and 337-338: transport.accept() raises
AccAcceptFails ==
    /\ lpc = "accept"
    /\ lsock' = "none"
    /\ lpc' = "raise"
    /\ UNCHANGED <<forwarded, peer, rhost, cpc, cop, seen, notListen>>

\* accepter, line 336: cancel_port_forward; lines 337-338 when it raises
AccCancel(ok) ==
    /\ lpc = "cancel"
    /\ IF ok
       THEN forwarded' = FALSE /\ lsock' = lsock /\ lpc' = "record"
       ELSE forwarded' = forwarded /\ lsock' = "none" /\ lpc' = "raise"
    /\ UNCHANGED <<peer, rhost, cpc, cop, seen, notListen>>

\* accepter, lines 341-342: the peer address is recorded and the thread
\* ends
AccRecord ==
    /\ lpc = "record"
    /\ rhost' = peer
    /\ lpc' = "ended"
    /\ UNCHANGED <<lsock, forwarded, peer, cpc, cop, seen, notListen>>

\* accepter, line 339: the exception leaves the thread
AccRaise ==
    /\ lpc = "raise"
    /\ lpc' = "ended"
    /\ UNCHANGED <<lsock, forwarded, peer, rhost, cpc, cop, seen, notListen>>

\* what a call finds at the moment it returns; early: it began while
\* self.sock was not set
Snapshot(began) ==
    Some([sock |-> lsock, ended |-> lpc = "ended", rhost |-> rhost,
          forwarded |-> forwarded, early |-> began])

\* a caller evaluates self.sock, in a stream operation or in
\* wait_for_connection (line 357).  Python calls __getattr__ (line 360)
\* only when the instance has no attribute sock; otherwise the value is
\* returned at once
Access(c, op) ==
    /\ lpc \notin {"none", "failed"}
    /\ cpc[c] = "idle"
    /\ cop' = [cop EXCEPT ![c] = op]
    /\ IF lsock = "unset"
       THEN /\ cpc' = [cpc EXCEPT ![c] = "joining"]
            /\ seen' = seen
       ELSE /\ cpc' = [cpc EXCEPT ![c] = "returned"]
            /\ seen' = [seen EXCEPT ![c] = Snapshot(FALSE)]
    /\ UNCHANGED <<lpc, lsock, forwarded, peer, rhost, notListen>>

\* __getattr__, lines 362-364: the loop ends when the accepter is no
\* longer alive, and self.sock is returned
JoinAccepter(c) ==
    /\ cpc[c] = "joining"
    /\ lpc = "ended"
    /\ cpc' = [cpc EXCEPT ![c] = "returned"]
    /\ seen' = [seen EXCEPT ![c] = Snapshot(TRUE)]
    /\ UNCHANGED <<lpc, lsock, forwarded, peer, rhost, cop, notListen>>

\* the caller goes on
CallerForget(c) ==
    /\ cpc[c] = "returned"
    /\ cpc' = [cpc EXCEPT ![c] = "idle"]
    /\ seen' = [seen EXCEPT ![c] = None]
    /\ UNCHANGED <<lpc, lsock, forwarded, peer, rhost, cop, notListen>>

NextListen ==
    \/ \E ok \in BOOLEAN : Listen(ok)
    \/ \E p \in Peers : AccAccept(p)
    \/ AccAcceptFails
    \/ \E ok \in BOOLEAN : AccCancel(ok)
    \/ AccRecord
    \/ AccRaise
    \/ \E c \in Callers, op \in {"sock", "wait"} : Access(c, op)
    \/ \E c \in Callers : JoinAccepter(c)
    \/ \E c \in Callers : CallerForget(c)

\* ------------------------------------------------------------------------
\* ssh_channel.interactive (lines 194-267), for a channel whose process is
\* None
\* ------------------------------------------------------------------------
\* the keys of the local terminal; ctrl-c is what line 247 sends
Keys == {"k"}
CtrlC == "ctrl-c"

InterInit ==
    /\ term_mode = FALSE
    /\ event = FALSE
    /\ rd = "none"
    /\ fpc = "idle"
    /\ fdata = "unbound"
    /\ pending = FALSE
    /\ remoteEof = FALSE
    /\ lateSend = FALSE
    /\ endedBy = "none"

notInter == <<lifeVars, procVars, cacheVars, upVars, dirVars, listenVars, wdVars,
              fdVars, stampVars, rteVars>>

\* the first of the causes is kept
EndedBy(cause) == IF endedBy = "none" THEN cause ELSE endedBy

\* c.interactive(): lines 216-240, the event is created and recv_thread
\* started
Interactive(mode) ==
    /\ fpc = "idle"
    /\ term_mode' = mode
    /\ event' = FALSE
    /\ rd' = "test"
    /\ fpc' = "test"
    /\ UNCHANGED <<fdata, pending, remoteEof, lateSend, endedBy, notInter>>

\* recv_thread, line 223: while not event.is_set()
ReaderTest ==
    /\ rd = "test"
    /\ rd' = IF event THEN "ended" ELSE "recv"
    /\ UNCHANGED <<term_mode, event, fpc, fdata, pending, remoteEof, lateSend,
                   endedBy, notInter>>

\* recv_thread, lines 225-232: recv(timeout=0.05) gives bytes, which are
\* written to stdout, or None after the timeout
ReaderRecv ==
    /\ rd = "recv"
    /\ pending \/ ~remoteEof
    /\ pending' = FALSE
    /\ rd' = "test"
    /\ UNCHANGED <<term_mode, event, fpc, fdata, remoteEof, lateSend, endedBy,
                   notInter>>

\* recv_thread, lines 233-236: recv raises EOFError
ReaderEof ==
    /\ rd = "recv"
    /\ remoteEof /\ ~pending
    /\ event' = TRUE
    /\ endedBy' = EndedBy("recv_eof")
    /\ rd' = "ended"
    /\ UNCHANGED <<term_mode, fpc, fdata, pending, remoteEof, lateSend, notInter>>

\* line 242: while not event.is_set()
FgTest ==
    /\ fpc = "test"
    /\ fpc' = IF event THEN "join" ELSE "read"
    /\ UNCHANGED <<term_mode, event, rd, fdata, pending, remoteEof, lateSend,
                   endedBy, notInter>>

\* line 256: if data
AfterRead(d) == IF d # "" THEN "send" ELSE "test"

\* lines 243-245: term.key.getraw(0.1) returns after a tenth of a second
\* with no key
FgKeyTimeout ==
    /\ fpc = "read" /\ term_mode
    /\ fdata' = ""
    /\ fpc' = AfterRead("")
    /\ UNCHANGED <<term_mode, event, rd, pending, remoteEof, lateSend, endedBy,
                   notInter>>

\* lines 245-247: a key is read, or KeyboardInterrupt is translated
FgKey(k) ==
    /\ fpc = "read" /\ term_mode
    /\ fdata' = k
    /\ fpc' = AfterRead(k)
    /\ UNCHANGED <<term_mode, event, rd, pending, remoteEof, lateSend, endedBy,
                   notInter>>

\* lines 248-250: getraw raises IOError; it is raised again unless the
\* event is set, and then line 256 tests the data of the round before
\* (UnboundLocalError when there was none)
FgKeyIOError ==
    /\ fpc = "read" /\ term_mode
    /\ fpc' = IF ~event \/ fdata = "unbound" THEN "raised" ELSE AfterRead(fdata)
    /\ UNCHANGED <<term_mode, event, rd, fdata, pending, remoteEof, lateSend,
                   endedBy, notInter>>

\* line 252: sys.stdin.read(1) returns when standard input has a
\* byte
FgStdin(k) ==
    /\ fpc = "read" /\ ~term_mode
    /\ fdata' = k
    /\ fpc' = AfterRead(k)
    /\ UNCHANGED <<term_mode, event, rd, pending, remoteEof, lateSend, endedBy,
                   notInter>>

\* lines 252-254: sys.stdin.read(1) returns "" at the end of standard
\* input
FgStdinEof ==
    /\ fpc = "read" /\ ~term_mode
    /\ fdata' = ""
    /\ event' = TRUE
    /\ endedBy' = EndedBy("stdin_eof")
    /\ fpc' = AfterRead("")
    /\ UNCHANGED <<term_mode, rd, pending, remoteEof, lateSend, notInter>>

\* lines 257-261: self.send(data); on a stream that has ended it may raise
\* EOFError
FgSend(broken) ==
    /\ fpc = "send"
    /\ broken => remoteEof
    /\ lateSend' = (lateSend \/ event)
    /\ event' = (event \/ broken)
    /\ endedBy' = IF broken THEN EndedBy("send_eof") ELSE endedBy
    /\ fpc' = "test"
    /\ UNCHANGED <<term_mode, rd, fdata, pending, remoteEof, notInter>>

\* a join that does not wait for the thread
ReaderAliveNever == FALSE

\* line 263: t.is_alive()
ReaderAlive == rd # "ended"

\* lines 263-267: the loop around t.join(timeout=0.1) ends and
\* interactive returns
FgJoin ==
    /\ fpc = "join"
    /\ ~ReaderAlive
    /\ fpc' = "returned"
    /\ UNCHANGED <<term_mode, event, rd, fdata, pending, remoteEof, lateSend,
                   endedBy, notInter>>

\* the remote shell writes
RemoteOutput ==
    /\ fpc # "idle" /\ ~remoteEof /\ ~pending
    /\ pending' = TRUE
    /\ UNCHANGED <<term_mode, event, rd, fpc, fdata, remoteEof, lateSend, endedBy,
                   notInter>>

\* the remote shell exits and its stream ends
RemoteCloses ==
    /\ fpc # "idle" /\ ~remoteEof
    /\ remoteEof' = TRUE
    /\ UNCHANGED <<term_mode, event, rd, fpc, fdata, pending, lateSend, endedBy,
                   notInter>>

\* the steps that need nothing from the local terminal or standard input
NextWithoutInput ==
    \/ ReaderTest
    \/ ReaderRecv
    \/ ReaderEof
    \/ FgTest
    \/ FgKeyTimeout
    \/ \E broken \in BOOLEAN : FgSend(broken)
    \/ FgJoin

NextInteractive ==
    \/ \E mode \in BOOLEAN : Interactive(mode)
    \/ NextWithoutInput
    \/ \E k \in Keys \cup {CtrlC} : FgKey(k)
    \/ FgKeyIOError
    \/ \E k \in Keys : FgStdin(k)
    \/ FgStdinEof
    \/ RemoteOutput
    \/ RemoteCloses

\* ------------------------------------------------------------------------
\* The working directory of a channel opened without one (lines 625, 674,
\* 773-774, 90-91)
\* ------------------------------------------------------------------------
notWd == <<lifeVars, procVars, cacheVars, upVars, dirVars, listenVars, interVars,
           fdVars, stampVars, rteVars>>

WdInit ==
    /\ swres = "none"
    /\ swret = None
    /\ cwdBefore = None
    /\ lastChan = None

\* what set_working_directory may be given: a directory there is, relative
\* or absolute, one there is not, or none
DirChoices ==
    { Some(d) : d \in WorkDirs \cup {Rel(<<"d">>), Abs(<<"w", "d">>), Rel(<<"nodir">>)} }
        \cup {None}

\* "cd wd >/dev/null 2>&1; command" in the login shell (lines 90-91): the
\* directory the command runs in; a cd that fails is passed over
CdFrom(dir, wd) ==
    IF Resolve(dir, wd) \in RemoteDirs THEN Resolve(dir, wd) ELSE dir

\* run/system without wd (lines 773-774): wd = self.cwd
SystemDir(cwd) == Some(CdFrom(Home, cwd))

\* process without cwd (line 625): cwd = self.cwd goes into the launcher's
\* os.chdir (line 674), and the launcher is itself started through
\* self.run (line 733), that is after cd self.cwd; os.chdir raises when
\* the directory is not there
ProcessDir(cwd) ==
    LET from == CdFrom(Home, cwd)
    IN IF Resolve(from, cwd) \in RemoteDirs THEN Some(Resolve(from, cwd)) ELSE None

\* s.run(cmd), s.system(cmd) or s.process(argv), no directory given
OpenChannel(how) ==
    /\ upc = "idle"
    /\ lastChan' = Some([how |-> how,
                         dir |-> IF how = "process" THEN ProcessDir(sessionCwd)
                                 ELSE SystemDir(sessionCwd)])
    /\ UNCHANGED <<swres, swret, cwdBefore, notWd>>

NextWd ==
    \/ \E wd \in DirChoices, made \in BOOLEAN : SetWorkingDirectory(wd, made)
    \/ \E how \in {"run", "system", "process"} : OpenChannel(how)

\* ------------------------------------------------------------------------
\* The launcher's descriptor loop (lines 655-664, 700-711)
\* ------------------------------------------------------------------------
notFd == <<lifeVars, procVars, cacheVars, upVars, dirVars, listenVars, interVars,
           wdVars, stampVars, rteVars>>

\* the descriptors of the launcher
MaxFd == 3
Fds == 0 .. MaxFd
StdFds == {0, 1, 2}

\* what a slot may be given: None, a path, or a descriptor number
\* (sys.stdin, sys.stdout, sys.stderr are the numbers 0, 1, 2: lines
\* 656-658)
FdPaths == {"p"}
SlotNone == [kind |-> "none"]
SlotPath(f) == [kind |-> "path", file |-> f]
SlotFd(n) == [kind |-> "fd", fd |-> n]
SlotValues ==
    {SlotNone} \cup {SlotPath(f) : f \in FdPaths} \cup {SlotFd(n) : n \in Fds}

\* the defaults stdin=0, stdout=1, stderr=2 (line 519)
DefaultPlan == <<SlotFd(0), SlotFd(1), SlotFd(2)>>

\* an open file: what it is open on and how
Inherited(f) == [file |-> f, flags |-> "inherited"]

\* the table a launcher starts with: the three streams of the channel,
\* and whatever else its parent left open
StartTable(extra) ==
    [n \in Fds |->
        IF n = 0 THEN Some(Inherited("in"))
        ELSE IF n = 1 THEN Some(Inherited("out"))
        ELSE IF n = 2 THEN Some(Inherited("err"))
        ELSE IF extra THEN Some(Inherited("extra")) ELSE None]

FdInit ==
    /\ fdplan = DefaultPlan
    /\ fdtab = StartTable(FALSE)
    /\ fdtab0 = StartTable(FALSE)
    /\ pthere = {}
    /\ lnpos = "idle"
    /\ lnslot = 0

\* the launcher has written its handshake (lines 695-698) and enters the
\* loop with the plan process() was given
LauncherStart(p0, p1, p2, extra, there) ==
    /\ lnpos = "idle"
    /\ fdplan' = <<p0, p1, p2>>
    /\ fdtab' = StartTable(extra)
    /\ fdtab0' = StartTable(extra)
    /\ pthere' = there
    /\ lnpos' = "loop"
    /\ lnslot' = 0
    /\ UNCHANGED notFd

\* os.open returns the lowest descriptor that is not open
LowestFree(t) == CHOOSE n \in Fds : t[n] = None /\ \A k \in 0 .. n - 1 : t[k] # None

\* os.O_RDONLY if fd == 0 else (os.O_RDWR | os.O_CREAT) (line 705)
OpenFlags(fd) == IF fd = 0 THEN "rdonly" ELSE "rdwr_creat"

\* os.dup2(a, b): descriptor b becomes a copy of descriptor a
Dup2(t, a, b) == [t EXCEPT ![b] = t[a]]

\* one round of the loop (lines 700-709), for slot lnpos; a Python
\* exception ends the launcher
RemapSlot ==
    /\ lnpos = "loop" /\ lnslot \in StdFds
    /\ LET fd == lnslot
           newfd == fdplan[fd + 1]
           closed == [fdtab EXCEPT ![fd] = None]
       IN CASE newfd.kind = "none" ->
                 \* line 702: close is not defined, NameError
                 /\ lnpos' = "crashed" /\ UNCHANGED lnslot
                 /\ UNCHANGED <<fdtab, pthere>>
            [] newfd.kind = "path" ->
                 \* lines 704-705; O_RDONLY needs the file, O_CREAT makes it
                 IF fdtab[fd] = None \/ (fd = 0 /\ newfd.file \notin pthere)
                 THEN /\ lnpos' = "crashed" /\ UNCHANGED lnslot
                      /\ fdtab' = closed
                      /\ UNCHANGED pthere
                 ELSE /\ fdtab' = [closed EXCEPT ![LowestFree(closed)] =
                                       Some([file |-> newfd.file,
                                             flags |-> OpenFlags(fd)])]
                      /\ pthere' = pthere \cup {newfd.file}
                      /\ lnslot' = fd + 1 /\ UNCHANGED lnpos
            [] newfd.kind = "fd" /\ newfd.fd # fd ->
                 \* lines 707-709
                 IF fdtab[fd] = None
                 THEN /\ lnpos' = "crashed" /\ UNCHANGED lnslot
                      /\ UNCHANGED <<fdtab, pthere>>
                 ELSE /\ fdtab' = IF newfd.fd > 2
                                  THEN [Dup2(fdtab, fd, newfd.fd) EXCEPT ![newfd.fd] = None]
                                  ELSE Dup2(fdtab, fd, newfd.fd)
                      /\ lnslot' = fd + 1 /\ UNCHANGED lnpos
                      /\ UNCHANGED pthere
            [] OTHER ->
                 /\ lnslot' = fd + 1 /\ UNCHANGED lnpos
                 /\ UNCHANGED <<fdtab, pthere>>
    /\ UNCHANGED <<fdplan, fdtab0, notFd>>

\* os.execve(exe, argv, env) (line 711): the target has the table
Execve ==
    /\ lnpos = "loop" /\ lnslot = 3
    /\ lnpos' = "exec"
    /\ UNCHANGED <<fdplan, fdtab, fdtab0, pthere, lnslot, notFd>>

\* the next process() call starts another launcher
LauncherForget ==
    /\ lnpos \in {"exec", "crashed"}
    /\ fdplan' = DefaultPlan
    /\ fdtab' = StartTable(FALSE)
    /\ fdtab0' = StartTable(FALSE)
    /\ pthere' = {}
    /\ lnpos' = "idle"
    /\ lnslot' = 0
    /\ UNCHANGED notFd

NextFd ==
    \/ \E p0, p1, p2 \in SlotValues, extra \in BOOLEAN, there \in SUBSET FdPaths :
           LauncherStart(p0, p1, p2, extra, there)
    \/ RemapSlot
    \/ Execve
    \/ LauncherForget

\* ------------------------------------------------------------------------
\* _download_to_cache for a file without a fingerprint (lines 1020-1028)
\* ------------------------------------------------------------------------
notStamp == <<lifeVars, procVars, upVars, dirVars, listenVars, interVars, wdVars,
              fdVars, rteVars>>

\* the seconds the clock goes through, and the downloads followed
MaxClock == 2
MaxStamped == 2

\* remote files, as readlink -f gives them (line 1018), and their bytes
StampRemotes == { Abs(<<"a", "f">>), Abs(<<"b", "f">>), Abs(<<"a", "g">>) }
StampBytes(remote) == IF remote.parts[1] = "a" THEN "A" ELSE "B"

\* lines 1022-1024: os.path.basename(os.path.normpath(remote)) followed by
\* time.strftime('-%Y-%m-%d-%H:%M:%S'), the time to the second
StampName(remote, time) ==
    [fp |-> None, ts |-> TRUE,
     base |-> Basename(Abs(NormParts(remote.parts))), time |-> time]

StampInit ==
    /\ now = 0
    /\ stamped = <<>>
    /\ catres = None

\* _download_to_cache(remote) where _get_fingerprint returned None
DownloadUnprinted(remote, ok) ==
    /\ dpc = "idle"
    /\ Len(stamped) < MaxStamped
    /\ LET r == ToCache(None, StampName(remote, now), cachedir, cache, ok, sftp,
                        StampBytes(remote))
       IN  /\ cachedir' = r.dir
           /\ stamped' = Append(stamped, [remote |-> remote, local |-> r.local,
                                          log |-> r.log, raised |-> r.raised,
                                          wrote |-> r.wrote])
    /\ UNCHANGED <<cache, sftp, rfile, dpc, dop, fingerprint, dlocal, rawThis,
                   wroteThis, dlog, dres, dest, destBefore, stable, prev, now,
                   catres, notStamp>>

\* a second passes
Tick ==
    /\ now < MaxClock
    /\ now' = now + 1
    /\ UNCHANGED <<stamped, catres, cacheVars, notStamp>>

\* the downloads are followed anew, the cache directory emptied
StampForget ==
    /\ stamped # <<>>
    /\ stamped' = <<>>
    /\ cachedir' = {}
    /\ UNCHANGED <<cache, sftp, rfile, dpc, dop, fingerprint, dlocal, rawThis,
                   wroteThis, dlog, dres, dest, destBefore, stable, prev, now,
                   catres, notStamp>>

NextStamp ==
    \/ \E remote \in StampRemotes, ok \in BOOLEAN : DownloadUnprinted(remote, ok)
    \/ Tick
    \/ StampForget
    \/ \E b \in BOOLEAN : SetCache(b) /\ stamped = <<>>
    \/ \E b \in BOOLEAN : SetSftp(b) /\ stamped = <<>>

\* ------------------------------------------------------------------------
\* _download_raw without sftp (lines 987-1012), under _download_to_cache
\* and download_data
\* ------------------------------------------------------------------------
\* the remote file, and what the channel of cat may deliver of it: the
\* file, less (the stream ended early) or more (the file grew)
CatFile == <<"a", "b">>
CatReceived == { <<"a">>, <<"a", "b">>, <<"a", "b", "c">> }
CatRemote == Abs(<<"a", "f">>)

\* wc -c < remote (line 987): the byte count, when its status is 0
WcTotal(c) == Len(c)

\* lines 989-991 and 1006-1009: _download_raw goes on to write only when
\* wc and cat both exited with 0; total is used for the progress line
\* (line 1003) and nowhere else
CatWrites(probe, status) == probe = 0 /\ status = 0

\* download_data(remote) with self.sftp unset: _get_fingerprint, then
\* _download_to_cache, then open(local).read() (lines 1064-1065), which
\* raises when no file is at the path returned
DownloadByCat(tool, received, probe, status) ==
    /\ dpc = "idle" /\ ~sftp
    /\ LET fp == GetFingerprint(tool, CatFile)
           r == ToCache(fp, StampName(CatRemote, now), cachedir, cache,
                        CatWrites(probe, status), FALSE, received)
           f == FileAt(r.dir, r.local)
       IN  /\ cachedir' = r.dir
           /\ catres' = Some([total |-> WcTotal(CatFile), received |-> received,
                              probe |-> probe, status |-> status,
                              printed |-> fp # None, wrote |-> r.wrote,
                              res |-> IF r.raised \/ f = None THEN Raised
                                      ELSE [kind |-> "data", data |-> f]])
    /\ UNCHANGED <<cache, sftp, rfile, dpc, dop, fingerprint, dlocal, rawThis,
                   wroteThis, dlog, dres, dest, destBefore, stable, prev, now,
                   stamped, notStamp>>

\* the cache directory is emptied
CatForget ==
    /\ catres # None
    /\ catres' = None
    /\ cachedir' = {}
    /\ UNCHANGED <<cache, sftp, rfile, dpc, dop, fingerprint, dlocal, rawThis,
                   wroteThis, dlog, dres, dest, destBefore, stable, prev, now,
                   stamped, notStamp>>

NextCat ==
    \/ \E tool \in Tools, received \in CatReceived, probe \in {0, 1},
          status \in {0, 1} : DownloadByCat(tool, received, probe, status)
    \/ CatForget
    \/ \E b \in BOOLEAN : SetCache(b) /\ catres = None
    \/ \E b \in BOOLEAN : SetSftp(b) /\ catres = None

\* ------------------------------------------------------------------------
\* The channel specification
\* ------------------------------------------------------------------------
vars == <<lifeVars, procVars, xferVars>>

LifeInit ==
    /\ cstate = "absent"
    /\ sock = "unset"
    /\ tmp_sock = "unset"
    /\ returncode = None
    /\ tty = FALSE
    /\ process = NoProcess
    /\ chanEnv = <<>>
    /\ cmdline = None
    /\ rbuffer = <<>>
    /\ on_winch = <<OtherCb>>
    /\ requests = <<>>
    /\ chClosed = FALSE
    /\ written = <<>>
    /\ taken = 0
    /\ eof = FALSE
    /\ exitCode = None
    /\ pc = <<>>
    /\ ret = None
    /\ data = <<>>
    /\ rteRet = None
    /\ rte = None
    /\ lastOp = "none"
    /\ events = <<>>
    /\ fetches = 0
    /\ rpc = "idle"
    /\ resizeErr = FALSE

Init == LifeInit /\ ProcInit /\ CacheInit /\ UpInit /\ DirInit /\ ListenInit
        /\ InterInit /\ WdInit /\ FdInit /\ StampInit /\ rteEnv = <<>>

Next ==
    \/ \E p \in LifeInputs, t \in BOOLEAN, f \in FailPoints :
          Open(p, t, None, <<>>, f)
    \/ \E p \in LifeInputs, t \in BOOLEAN, env \in RteEnvs, f \in FailPoints :
          StartRunToEnd(p, t, None, env, f)
    \/ CallPoll
    \/ CallWait
    \/ \E timeout \in {"forever", "finite"} : CallRecvall(timeout)
    \/ CallClose
    \/ StepPollNb
    \/ StepPollB
    \/ StepRteWait
    \/ StepCloseRemove
    \/ StepCloseRelease
    \/ StepRaSave
    \/ StepRaFillForever
    \/ StepRaFillTimeout
    \/ StepRaGet
    \/ StepRaRestore
    \/ StepRaNone
    \/ StepRteRet
    \/ Return
    \/ RemoteWrite
    \/ RemoteEof
    \/ \E c \in ExitCodes : ProcExit(c)
    \/ WinchFire
    \/ ResizerCheck
    \/ ResizerCall

Spec == Init /\ [][Next]_vars


\* ------------------------------------------------------------------------
\* The construction specification: every input of __init__, then close
\* ------------------------------------------------------------------------
NextOpen ==
    \/ \E p \in ProcessInputs, t \in BOOLEAN, wd \in WdInputs, env \in EnvInputs,
          f \in FailPoints : Open(p, t, wd, env, f)
    \/ CallClose
    \/ StepPollNb
    \/ StepCloseRemove
    \/ StepCloseRelease
    \/ Return
    \/ \E c \in ExitCodes : ProcExit(c)
    \/ WinchFire
    \/ ResizerCheck
    \/ ResizerCall

SpecOpen == Init /\ [][NextOpen]_vars

\* ------------------------------------------------------------------------
\* The process() specification
\* ------------------------------------------------------------------------
SpecProcess == Init /\ [][NextProcess]_vars

\* ------------------------------------------------------------------------
\* The download specification
\* ------------------------------------------------------------------------
SpecCache == Init /\ [][NextCache]_vars

\* ------------------------------------------------------------------------
\* The upload specification
\* ------------------------------------------------------------------------
SpecUpload == Init /\ [][NextUpload]_vars

\* ------------------------------------------------------------------------
\* The directory transfer specification
\* ------------------------------------------------------------------------
SpecDir == Init /\ [][NextDir]_vars

\* ------------------------------------------------------------------------
\* The listener specification
\* ------------------------------------------------------------------------
SpecListen == Init /\ [][NextListen]_vars

\* ------------------------------------------------------------------------
\* The interactive() specification
\* ------------------------------------------------------------------------
SpecInteractive == Init /\ [][NextInteractive]_vars
SpecWd == Init /\ [][NextWd]_vars
SpecFd == Init /\ [][NextFd]_vars
SpecStamp == Init /\ [][NextStamp]_vars
SpecCat == Init /\ [][NextCat]_vars


\* ------------------------------------------------------------------------
\* Properties of the channel life cycle (Spec)
\* ------------------------------------------------------------------------
\* a step that ends a call of poll (wait and close call poll)
PollReturns ==
    /\ pc # <<>> /\ Head(pc) \in {"poll_nb", "poll_b", "rte_wait"}
    /\ pc' = Tail(pc)

\* C1: over any sequence of poll, wait, recvall and close, returncode
\* changes at most once, from unset to an exit code, and never afterwards;
\* every poll made once it is set returns that code, also after the
\* transport handle has been released.
C1_ReturncodeSetOnce ==
    [][ /\ returncode # None => returncode' = returncode
        /\ returncode' # returncode =>
              /\ returncode = None
              /\ \E c \in ExitCodes : returncode' = Some(c)
        /\ (returncode # None /\ PollReturns) => ret' = returncode ]_vars

\* a poll has returned the memoized code on a channel whose handle is gone
C1_Witness ==
    /\ AtLabel("ret_poll")
    /\ sock = "None" /\ chClosed
    /\ returncode = Some(17) /\ ret = returncode

\* recvall has just returned, to the caller or to run_to_end
RecvallReturned == AtLabel("ret_recvall") \/ AtLabel("rte_wait")

RECURSIVE IndexOf(_, _)
\* the first place of x in l, 0 if it has none
IndexOf(l, x) ==
    IF l = <<>> THEN 0
    ELSE IF Head(l) = x THEN 1
    ELSE IF IndexOf(Tail(l), x) = 0 THEN 0
    ELSE 1 + IndexOf(Tail(l), x)

\* C2 as stated: whenever recvall returns, returncode is set and the handle
\* is released.
C2_RecvallAlwaysMemoizes ==
    RecvallReturned => returncode # None /\ sock = "None"

\* C2, amended: a recvall called while the channel's handle is held fetches
\* the exit status while the handle is held (the handle saved at entry is
\* put back for the fetch), and when it returns returncode is set, the
\* handle is released, and the discard of the handle is the last thing it
\* did.  A recvall on a channel closed before the status was memoized
\* returns with returncode unset.
C2_RecvallMemoizesBeforeDiscard ==
    /\ [](RecvallReturned /\ tmp_sock = "chan" =>
            /\ returncode # None /\ returncode = exitCode
            /\ sock = "None"
            /\ events[Len(events)] = "discard"
            /\ IndexOf(events, "restore") < Len(events))
    /\ [][(returncode = None /\ returncode' # None) =>
            sock = "chan" /\ sock' = "chan"]_vars

\* recvall returned after it fetched the status itself through the handle it
\* had put back: the stream ended before the process exited
C2_Witness ==
    /\ AtLabel("ret_recvall") /\ tmp_sock = "chan"
    /\ events = <<"poll", "remove", "release", "restore", "poll", "fetch", "discard">>
    /\ returncode = Some(17) /\ sock = "None"

\* C3: wait() on an open channel, no recvall made, returns the remote
\* process's exit status, the value that is memoized; the exit status is
\* fetched from the transport at most once per channel.
C3_WaitGetsStatusOnce ==
    /\ fetches <= 1
    /\ returncode # None => returncode = exitCode
    /\ (AtLabel("ret_wait") /\ sock = "chan") =>
          /\ exitCode # None
          /\ ret = exitCode
          /\ returncode = ret

\* wait returned 17 on a channel still open, after one fetch
C3_Witness ==
    /\ AtLabel("ret_wait") /\ sock = "chan" /\ ~chClosed
    /\ ret = Some(17) /\ fetches = 1

\* C4: run_to_end returns all the bytes the command wrote until the end of
\* the stream and the command's exit status, never None; the channel is
\* closed when it returns.
C4_RunToEndResult ==
    rte # None =>
        /\ eof /\ rte[1].data = written
        /\ rte[1].retcode # None /\ rte[1].retcode = exitCode
        /\ sock = "None" /\ chClosed
        /\ ~InList(on_winch, OwnCb)

\* run_to_end returned (b'Hi', 17)
C4_Witness ==
    /\ rte # None
    /\ rte[1].data = <<"H", "i">>
    /\ rte[1].retcode = Some(17)

\* what one close() does, in order
CloseOrders ==
    { <<"poll", "remove", "release">>,
      <<"poll", "fetch", "remove", "release">>,
      <<"poll", "remove">> }

\* a step of a close() called by the caller
InClose == pc # <<>> /\ pc[Len(pc)] = "ret_close" /\ pc' # pc

\* C5: when close() returns the channel's resize callback is not in the
\* resize list and the handle is released; within a close the order is the
\* non-blocking poll, the removal of the callback, the release of the
\* handle; a close() on a channel already closed changes nothing.
C5_CloseIdempotent ==
    /\ [](AtLabel("ret_close") =>
            /\ sock = "None" /\ chClosed
            /\ ~InList(on_winch, OwnCb)
            /\ events \in CloseOrders)
    /\ [][(InClose /\ sock = "None") =>
            UNCHANGED <<cstate, sock, returncode, rbuffer, on_winch, netVars,
                        fetches>>]_vars

\* a second close() on a tty channel has returned: it polled and found
\* nothing to remove or to release
C5_Witness ==
    /\ AtLabel("ret_close") /\ tty
    /\ events = <<"poll", "remove">>
    /\ sock = "None" /\ on_winch = <<OtherCb>>

\* C6: under every interleaving of a resize event with close() on a tty
\* channel, the resize callback never uses a released (None) handle and
\* never raises, and when close() returns the callback is registered no
\* more.
C6_ResizeToleratesClose ==
    /\ ~resizeErr
    /\ AtLabel("ret_close") => ~InList(on_winch, OwnCb)

\* ------------------------------------------------------------------------
\* Properties of the construction (SpecOpen)
\* ------------------------------------------------------------------------
\* a command was given and it is not empty
NonEmptyCommand(p) == p.kind # "none" /\ p.val # <<>>

\* C7: a channel that was constructed has issued exactly one request: the
\* execution of the command when a non-empty command was given, the
\* invocation of a shell otherwise; a construction that failed has issued
\* none.
C7_ExactlyOneRequest ==
    /\ cstate \in {"open", "rte"} =>
          /\ Len(requests) = 1
          /\ requests[1] = IF NonEmptyCommand(process) THEN "exec" ELSE "shell"
          /\ requests[1] = "exec" => cmdline # None /\ cmdline[1] # <<>>
    /\ cstate \in {"absent", "failed"} => requests = <<>>

\* a channel given the empty string as its command has invoked a shell
C7_Witness ==
    /\ cstate = "open"
    /\ process = StrProcess(<<>>)
    /\ requests = <<"shell">>

\* C13: a channel opened with a command and an environment holding a key
\* that does not match ^[A-Za-z_][A-Za-z0-9_]*$ raises before the transport
\* session is opened and before any request is issued on it.
C13_InvalidEnvKeyFailsFirst ==
    (/\ cstate # "absent"
     /\ NonEmptyCommand(process)
     /\ \E i \in 1..Len(chanEnv) : ~ValidName(chanEnv[i].name)) =>
        /\ cstate = "failed"
        /\ sock = "unset"
        /\ requests = <<>>
        /\ ~InList(on_winch, OwnCb)

\* the construction of a tty channel for ['ls', '-l'] with the key 1A was
\* given up with no session opened
C13_Witness ==
    /\ cstate = "failed" /\ tty
    /\ process = ListProcess(<<"ls", "-l">>)
    /\ chanEnv = <<[name |-> <<"1", "A">>, value |-> "v"]>>
    /\ sock = "unset" /\ requests = <<>>

\* ------------------------------------------------------------------------
\* Properties of the spawn handshake (SpecProcess)
\* ------------------------------------------------------------------------
\* the first line process() received
FirstLine == consumed[1]
Finished == ppc = "done" /\ consumed # <<>>

\* C8: the launcher command line writes "2" first exactly when the host has
\* no interpreter, "0" first exactly when the interpreter ran the launcher
\* and the resolved executable is missing or not executable, "1" first
\* exactly when the launcher goes on to exec the target, and then the pid
\* line follows; process() fails naming the executable when it receives "0"
\* first and naming the host when it receives "2" first.
C8_FirstLineTellsOutcome ==
    /\ launched # <<>> =>
          /\ launched[1] = Line2 <=> ~host.python
          /\ launched[1] = Line0 <=>
                /\ host.python /\ host.cwdOk
                /\ ~(host.direct \/ (~host.sep /\ host.inPath))
          /\ launched[1] = Line1 <=>
                /\ host.python /\ host.cwdOk
                /\ (host.direct \/ (~host.sep /\ host.inPath))
          /\ launched[1] = Line1 =>
                Len(launched) >= 2 /\ launched[2] = Str(host.pid)
    /\ Finished =>
          /\ FirstLine = Line0 <=> outcome = "err_exe"
          /\ FirstLine = Line2 <=> outcome = "err_host"

\* process() failed naming the executable: exe has no separator, is not
\* executable as given and no directory of PATH holds it
C8_Witness ==
    /\ Finished /\ outcome = "err_exe"
    /\ FirstLine = Line0
    /\ ~host.sep /\ ~host.direct /\ ~host.inPath

\* C9: when the first line is none of "0", "1", "2", process() fails (any
\* exception raised by process() is taken as that failure) after it has
\* buffered the output of up to a second (asked here only of a first line
\* that safeeval.const accepts); process() returns a channel only when the
\* first line was "1".
C9_OtherFirstLineFails ==
    Finished =>
        /\ (FirstLine \notin {Line0, Line1, Line2} /\ result # None) =>
              outcome # "channel" /\ error_message # None
        /\ outcome = "channel" => FirstLine = Line1

\* C10: when process() returns a channel, the "1" line and the pid line are
\* what it took from the stream, the channel's pid is the integer of the
\* pid line, and what is left in the stream is the program's own output.
C10_HandshakeConsumed ==
    outcome = "channel" =>
        /\ consumed = <<Line1, Str(host.pid)>>
        /\ pid = Some(host.pid)
        /\ stream = host.prog

\* ------------------------------------------------------------------------
\* Properties of the validation of process() (SpecProcess)
\* ------------------------------------------------------------------------
\* a null byte before the last character of a string
HasInnerNul(v) == IsString(v) /\ \E i \in 1..Len(v.s) : i < Len(v.s) /\ v.s[i] = Nul

\* argv is absent or empty: None, an empty list, tuple or string, or another
\* value that counts as false
ArgvAbsent(a) == ~a.argv.truthy

\* the argument sets the validation is to reject: neither argv nor
\* executable; an argv that is no list, tuple or string; an element of argv
\* that is no string or holds a null byte inside; an env that is no mapping;
\* an env key or value with a null byte inside
Malformed(a) ==
    \/ ArgvAbsent(a) /\ ~ValTruthy(a.executable)
    \/ a.argv.truthy /\ a.argv.kind = "other"
    \/ a.argv.truthy /\ \E i \in 1..Len(a.argv.items) :
          ~IsString(a.argv.items[i]) \/ HasInnerNul(a.argv.items[i])
    \/ a.env.kind = "other"
    \/ \E i \in 1..Len(a.env.items) :
          HasInnerNul(a.env.items[i].k) \/ HasInnerNul(a.env.items[i].v)

\* C11: for every argument set of the kinds the validation is to reject,
\* process() raises before a channel is opened and before a command is
\* issued on the remote host.
C11_MalformedFailsFast ==
    /\ (ppc # "init" /\ Malformed(pargs)) =>
          /\ ppc = "done" /\ outcome = "raised_invalid"
          /\ launched = <<>> /\ stream = <<>> /\ consumed = <<>>
    /\ outcome \in {"raised_invalid", "raised_type"} => launched = <<>>

\* process() raised on the last test of the validation, a null byte inside a
\* value of env, and nothing was run
C11_Witness ==
    /\ ppc = "done" /\ outcome = "raised_invalid"
    /\ pargs.argv = ArgvList(<<GoodArg>>)
    /\ pargs.env = EnvDict(<<[k |-> StrVal(<<"P">>), v |-> StrVal(<<Nul, "x">>)]>>)
    /\ launched = <<>>

\* C12: every call of process() whose argv is absent or empty is rejected as
\* an invalid argument, also when an executable is given, and the launcher
\* is never run with an empty argv.
C12_EmptyArgvRejected ==
    /\ (ppc # "init" /\ ArgvAbsent(pargs)) => outcome = "raised_invalid"
    /\ launched # <<>> => argv # <<>>

\* ------------------------------------------------------------------------
\* Properties of the download cache
\* ------------------------------------------------------------------------

\* the download at hand has returned bytes to its caller
Served == dpc = "done" /\ dres.kind # "raised"

\* the cache holds, under the fingerprint of the download at hand, a file
\* with another digest
StaleEntry ==
    /\ fingerprint # None /\ ValidPrint(fingerprint[1])
    /\ HasFile(cachedir, FpName(fingerprint[1]))
    /\ Digest(FileAt(cachedir, FpName(fingerprint[1]))[1]) # fingerprint[1]

\* C14: a file of the cache is served only if its digest equals the
\* fingerprint, and only after the download that serves it has compared the
\* two; with caching enabled, a file found under the fingerprint with
\* another digest is deleted and a raw transfer follows before anything
\* else happens.
C14_ServedMatches ==
    Served /\ fingerprint # None =>
        /\ Digest(dres.data[1]) = fingerprint[1]
        /\ InList(dlog, "verify")
C14_StaleDeleted ==
    (dpc = "fetch" /\ dpc' # "fetch" /\ cache /\ StaleEntry) =>
        /\ rawThis'
        /\ Len(dlog') >= 3 /\ SubSeq(dlog', 1, 3) = <<"verify", "unlink", "raw">>
        /\ FileAt(cachedir', FpName(fingerprint[1]))
              # FileAt(cachedir, FpName(fingerprint[1]))
C14_CacheServedOnlyIfMatching ==
    [] C14_ServedMatches /\ [][C14_StaleDeleted]_vars
C14_Witness ==
    /\ Served /\ cache
    /\ dlog = <<"verify", "unlink", "raw", "verify">>

\* the download at hand follows one that succeeded with caching enabled, and
\* since that one began neither the remote file, nor the cache, nor the
\* caching switch has changed
SecondOfTwo == Served /\ cache /\ stable /\ prev # None

\* with caching disabled every download calls _download_raw
DisabledAlwaysTransfers == (dpc \in {"ret", "done"} /\ ~cache) => rawThis

\* C15 as stated: with caching enabled the second of two downloads of the
\* same unchanged remote file makes no raw transfer; with caching disabled
\* every download makes one.
C15_SecondDownloadNoTransfer ==
    /\ SecondOfTwo => ~rawThis
    /\ DisabledAlwaysTransfers

\* C15, amended: with caching enabled the second of two downloads of the
\* same unchanged remote file makes no raw transfer and is served from the
\* cache, provided the remote host gave a fingerprint for both; with
\* caching disabled every download makes a raw transfer.
C15_SecondDownloadFromCache ==
    /\ (SecondOfTwo /\ prev[1].fp /\ fingerprint # None) =>
          ~rawThis /\ dlog = <<"verify", "found">>
    /\ DisabledAlwaysTransfers
C15_Witness ==
    /\ SecondOfTwo /\ prev[1].fp /\ prev[1].raw /\ fingerprint # None
    /\ ~rawThis

\* a string of exactly 64 hexadecimal digits
Is64Hex(fp) == fp.chars = "hex" /\ fp.len = 64

\* the remote host answered the download at hand with a string that is no
\* fingerprint, and _download_to_cache is over
BadPrintFetched ==
    /\ dpc \in {"ret", "done"}
    /\ fingerprint # None /\ ~Is64Hex(fingerprint[1])

\* C16: a download whose remote fingerprint is not exactly 64 hexadecimal
\* digits fails, with caching enabled or disabled: it raises, no local path
\* comes back from _download_to_cache and nothing is returned to the
\* caller; the verification has rejected the string unless the raw
\* transfer raised before it.
C16_BadFingerprintFails ==
    BadPrintFetched =>
        /\ dpc = "done" /\ dres = Raised /\ dlocal = None
        /\ dest = destBefore
        /\ \/ InList(dlog, "invalid")
           \/ rawThis /\ wroteThis = None /\ sftp
C16_Witness ==
    /\ BadPrintFetched /\ ~cache
    /\ dres = Raised /\ InList(dlog, "invalid")

\* C17: every file in the cache directory, where only _download_raw creates
\* files, is named by a fingerprint of exactly 64 hexadecimal digits.
C17_CacheNamesAreFingerprints ==
    \A f \in cachedir : f.name.fp # None /\ Is64Hex(f.name.fp[1])

\* the raw transfer of the download at hand wrote nothing, or wrote bytes
\* whose digest is not the remote fingerprint
BadTransfer ==
    /\ fingerprint # None /\ rawThis
    /\ \/ wroteThis = None
       \/ Digest(wroteThis[1]) # fingerprint[1]

\* C18: a download whose raw transfer wrote nothing, or wrote bytes that do
\* not hash to the remote fingerprint, ends with an exception: no data is
\* returned and the caller's destination file is as it was.
C18_BadTransferFailsHard ==
    (dpc = "done" /\ BadTransfer) => dres = Raised /\ dest = destBefore

\* ------------------------------------------------------------------------
\* Properties of upload_data
\* ------------------------------------------------------------------------

\* where a relative path leads from the session's working directory
FromSessionCwd(remote) == Resolve(Resolve(Home, sessionCwd), remote)

\* upload_data has returned from a call with a relative path that, taken
\* from the session's working directory, names a file in a directory that
\* is there, on a host that refuses no write
RelativeUploadDone ==
    /\ upc = "done" /\ ~uargs.remote.abs
    /\ Parent(FromSessionCwd(uargs.remote)) \in RemoteDirs
    /\ uargs.writable

\* C20: upload_data with a relative remote path, a bare file name or one
\* with directories, succeeds and leaves the bytes in the file that the
\* path names from the session's working directory, with sftp and without.
C20_RelativeToSessionCwd ==
    RelativeUploadDone =>
        /\ ures = "ok"
        /\ RemoteFileAt(rfs, FromSessionCwd(uargs.remote)) = Some(uargs.data)

\* ------------------------------------------------------------------------
\* Properties of the directory transfers
\* ------------------------------------------------------------------------

\* the remote directory upload_dir was asked to fill: the one given, or the
\* session's working directory
UploadedInto ==
    IF dargs.remote # None THEN FromSessionCwd(dargs.remote[1])
    ELSE Resolve(Home, sessionCwd)

\* upload_dir and then download_dir have been called, download_dir for the
\* directory of the same base name inside the remote directory, which is
\* there
RoundTripDone ==
    /\ dirpc = "done"
    /\ UploadedInto \in RemoteDirs
    /\ FromSessionCwd(dargs.back[1]) = UploadedInto \o <<LocalDir>>

\* C19: after upload_dir and download_dir of the same directory, every file
\* of the local directory is found again under the directory's base name,
\* at the same path and with the same bytes.
C19_DirRoundTrip ==
    RoundTripDone =>
        /\ dirres = "ok"
        /\ \A f \in ltree :
              [path |-> <<LocalDir>> \o f.path, content |-> f.content] \in lout

\* ------------------------------------------------------------------------
\* Properties of the upload fallback
\* ------------------------------------------------------------------------

\* C21: upload_data runs "cat>file" only when the session has no SFTP
\* client; it then sends the bytes, half-closes the write side, drains the
\* output and fetches the exit status, in this order, and raises when the
\* status is not 0; an upload that returns normally has stored the bytes.
C21_FallbackOrderAndFailure ==
    upc = "done" =>
        /\ InList(ulog, "run") => ~sftp
        /\ ~sftp =>
              /\ SubSeq(ulog, 1, 5) = <<"run", "send", "shutdown", "recvall", "wait">>
              /\ uargs.status # None
              /\ uargs.status[1] # 0 => ures = "raised"
        /\ ures = "ok" =>
              RemoteFileAt(rfs, UploadTarget(sessionCwd, sftp, uargs.remote))
                  = Some(uargs.data)
C21_Witness ==
    /\ upc = "done" /\ ~sftp
    /\ uargs.status = Some(1) /\ ures = "raised"

\* ------------------------------------------------------------------------
\* Properties of the listener
\* ------------------------------------------------------------------------

\* what a returned call found is a stream whose listener is complete: the
\* peer address is recorded and the port forward cancelled
SawComplete(c) ==
    seen[c][1].sock = "chan" =>
        seen[c][1].rhost # None /\ ~seen[c][1].forwarded

\* C22: an access to self.sock that begins before the accept has returned
\* returns only when the accepter has ended; a call in the loop of
\* __getattr__ can leave it once the accepter has ended; and no access
\* returns a stream whose listener is still being set up.
C22_AccessWaitsForAccepter ==
    \A c \in Callers :
        /\ seen[c] # None =>
              /\ seen[c][1].early => seen[c][1].ended
              /\ seen[c][1].sock # "unset"
              /\ SawComplete(c)
        /\ (cpc[c] = "joining" /\ lpc = "ended") => ENABLED JoinAccepter(c)

\* C23: when wait_for_connection returns the accepter has ended, and after
\* a successful accept the peer address is recorded and the port forward
\* cancelled.
C23_WaitReturnsAfterAccepter ==
    \A c \in Callers :
        (seen[c] # None /\ cop[c] = "wait") =>
            /\ seen[c][1].ended
            /\ SawComplete(c)

\* ------------------------------------------------------------------------
\* Properties of interactive()
\* ------------------------------------------------------------------------

\* interactive() is running
InInteractive == fpc \notin {"idle", "returned", "raised"}

\* C24: once the remote stream has ended and its bytes are received,
\* interactive() can always go on towards its return without anything
\* being typed or standard input ending, in raw mode and in line mode.
C24_EofEndsInteractive ==
    (InInteractive /\ remoteEof /\ ~pending) => ENABLED NextWithoutInput

\* C25: the foreground loop issues no send while the event is set.
C25_NoSendAfterStop == ~lateSend

\* C26: when interactive() has returned recv_thread has ended and the
\* event is set; and the event is set as soon as the stream ends for the
\* reader, a send meets the end of the stream, or standard input ends.
C26_ReturnAfterReader ==
    /\ fpc = "returned" => rd = "ended" /\ event
    /\ endedBy # "none" => event
C26_Witness ==
    /\ fpc = "returned" /\ endedBy = "send_eof"

\* ---- claim C27: set_working_directory changes self.cwd only when it
\* succeeds: a call that raised left self.cwd as it was, a call that
\* returned made self.cwd the directory returned, and a channel opened
\* afterwards through run, system or process with no directory of its own
\* runs its command in that directory
WdCallEnded == swres # "none"
C27_CwdOnlyOnSuccess ==
    /\ swres = "raised" => cwdBefore = Some(sessionCwd)
    /\ swres = "ok" => swret = Some(sessionCwd)
C27_ChannelsRunInCwd ==
    (swres = "ok" /\ lastChan # None) =>
        lastChan[1].dir = Some(Resolve(Home, sessionCwd))
C27_WorkingDirectory == C27_CwdOnlyOnSuccess /\ C27_ChannelsRunInCwd
C27_SystemRunsInCwd ==
    (swres = "ok" /\ lastChan # None /\ lastChan[1].how # "process") =>
        lastChan[1].dir = Some(Resolve(Home, sessionCwd))


\* ---- claim C28: a slot given a descriptor number n other than its own is
\* replaced by n: the round of the loop for slot s leaves descriptor s on
\* the open file descriptor n had before the round; and a slot left at its
\* default has, at os.execve, the file the launcher inherited there
SlotRemapped(s) == fdplan[s + 1].kind = "fd" /\ fdplan[s + 1].fd # s
SlotDefault(s) == fdplan[s + 1] = SlotFd(s)
C28_DefaultInherited ==
    lnpos = "exec" => \A s \in StdFds : SlotDefault(s) => fdtab[s] = fdtab0[s]
C28_RoundReplacesSlot ==
    (lnpos = "loop" /\ lnslot \in StdFds /\ SlotRemapped(lnslot))
        => /\ lnslot' = lnslot + 1
           /\ fdtab'[lnslot] = fdtab[fdplan[lnslot + 1].fd]
C28_DescriptorReplaced == []C28_DefaultInherited /\ [][C28_RoundReplacesSlot]_vars
\* what the loop does instead: descriptor n is made a copy of slot s, and
\* closed when it is above 2; slot s keeps its file
C28_SlotKept ==
    [][(lnpos = "loop" /\ lnslot \in StdFds /\ SlotRemapped(lnslot))
           => fdtab'[lnslot] = fdtab[lnslot]]_vars

\* ---- claim C29: for a plan of None and paths only, the launcher goes
\* through the loop and calls os.execve, and then a None slot's descriptor
\* is closed and a path slot's descriptor is open on the path, read-only
\* for slot 0 and read-write-create for slots 1 and 2
NoneOrPathPlan ==
    \A s \in StdFds :
        \/ fdplan[s + 1].kind = "none"
        \/ fdplan[s + 1].kind = "path" /\ (s = 0 => fdplan[s + 1].file \in pthere)
PlanApplied ==
    \A s \in StdFds :
        /\ fdplan[s + 1].kind = "none" => fdtab[s] = None
        /\ fdplan[s + 1].kind = "path" =>
               fdtab[s] = Some([file |-> fdplan[s + 1].file, flags |-> OpenFlags(s)])
C29_PlanAppliedThenExec ==
    (lnpos # "idle" /\ NoneOrPathPlan) =>
        /\ lnpos # "crashed"
        /\ lnpos = "exec" => PlanApplied
\* the same for plans of paths only
PathPlan == \A s \in StdFds : fdplan[s + 1].kind = "path"
C29_PathsReopened ==
    (lnpos # "idle" /\ NoneOrPathPlan /\ PathPlan) =>
        /\ lnpos # "crashed"
        /\ lnpos = "exec" => PlanApplied
C29_PathsWitness == lnpos = "exec" /\ NoneOrPathPlan /\ PathPlan

\* ---- claim C30: a download of a file without a fingerprint looks nothing
\* up in the cache and makes one raw transfer, into a local file named by
\* the remote base name and the time; the name is unique: two such
\* downloads of different remote files never write to the same local file
StampedRaw ==
    \A i \in DOMAIN stamped :
        /\ stamped[i].log = <<"raw">>
        /\ stamped[i].local.base = Basename(stamped[i].remote)
        /\ stamped[i].local.ts
C30_NoLookupOneTransfer == StampedRaw
C30_UnprintedSkipsCache ==
    /\ StampedRaw
    /\ \A i, j \in DOMAIN stamped :
           (/\ stamped[i].remote # stamped[j].remote
            /\ stamped[i].wrote # None /\ stamped[j].wrote # None)
               => stamped[i].local # stamped[j].local
\* the names differ when the base names or the seconds do
C30_NamesDifferAcrossSeconds ==
    \A i, j \in DOMAIN stamped :
        (\/ Basename(stamped[i].remote) # Basename(stamped[j].remote)
         \/ stamped[i].local.time # stamped[j].local.time)
            => stamped[i].local # stamped[j].local

\* ---- claim C31: in the download through cat, a transfer whose byte count
\* differs from the count measured before it fails: no data is returned,
\* with a fingerprint and without one; and when wc or cat exits nonzero
\* no local file is written
CountMismatch ==
    /\ catres # None
    /\ catres[1].wrote # None
    /\ Len(catres[1].received) # catres[1].total
C31_NoWriteOnNonzeroExit ==
    (catres # None /\ ~CatWrites(catres[1].probe, catres[1].status))
        => catres[1].wrote = None
C31_MismatchIsTransferError ==
    /\ CountMismatch => catres[1].res = Raised
    /\ C31_NoWriteOnNonzeroExit
\* with a fingerprint that is a digest, the mismatch does end the download
C31_MismatchFailsWithDigest ==
    (CountMismatch /\ catres[1].printed) => catres[1].res = Raised

\* ---- claim C32: a construction that failed, at whatever step, has left no
\* resize callback of the channel in the process-wide list and has issued
\* no command; and between calls the channel's callback is in the list
\* once when the channel is an open tty channel and not at all otherwise
Registered == Cardinality({i \in DOMAIN on_winch : on_winch[i] = OwnCb})
OpenTty == cstate \in {"open", "rte"} /\ tty /\ sock = "chan"
C32_NoCommandOnFailure == cstate = "failed" => requests = <<>>
C32_CallbacksMatchOpenTty ==
    (Idle /\ cstate # "failed") => Registered = (IF OpenTty THEN 1 ELSE 0)
C32_FailedLeavesNothing ==
    /\ cstate = "failed" => Registered = 0 /\ requests = <<>>
    /\ Idle => Registered = (IF OpenTty THEN 1 ELSE 0)
\* a construction that failed before the callback was appended
C32_EarlyFailureLeavesNothing ==
    (cstate = "failed" /\ (sock = "unset" \/ ~tty)) => Registered = 0

\* ---- claim C33: for a channel given a command, a working directory and
\* an environment, the command line is the raw-mode prefix (on a tty), then
\* the cd segment, then the NAME=VALUE assignments directly before the
\* user's command
AllGiven ==
    /\ cstate = "open"
    /\ NonEmptyCommand(process)
    /\ chanEnv # <<>>
    /\ InList(cmdline[1], "cd ")
\* the directories of the cd segment: one given, or the session's
CdDirs == (WdInputs \ {None}) \cup {SessionCwd}
EnvBeforeCommand(wd) ==
    WithStty(WithCd(WithEnv(ProcessString(process), chanEnv), wd), tty)
C33_EnvPrefixesCommand ==
    AllGiven => \E wd \in CdDirs : cmdline = EnvBeforeCommand(wd)
\* the raw-mode prefix does come first
C33_SttyFirst ==
    (AllGiven /\ tty) => cmdline[1][1] = "stty raw -ctlecho -echo; "
\* what the line is instead: the assignments come before the cd segment
C33_EnvPrefixesCd ==
    AllGiven => \E wd \in CdDirs :
                   cmdline = Serialize(process, tty, wd, chanEnv)
C33_Reached == AllGiven /\ tty

\* ---- claim C34: the channel run_to_end(process, env=E) opens was given
\* the env argument E of the caller, as the channel of system(process,
\* env=E) is
C34_RunToEndPassesEnv == cstate = "rte" => chanEnv = rteEnv
\* what the channel is given instead: no environment, whatever E is
C34_RunToEndDropsEnv == cstate = "rte" => chanEnv = <<>>
C34_Reached == cstate = "rte" /\ rteEnv # <<>>

====
